---- MODULE Spec2Model ----
(***************************************************************************)
(* Faypath: alert delivery engine, application creation and pipeline       *)
(* automation, modelled as state machines over the persisted records.      *)
(*                                                                         *)
(* Time is counted in whole hours since an epoch whose hour-of-day is 0.   *)
(* A nullable Date is NULL or a positive hour count.                       *)
(***************************************************************************)
EXTENDS Integers, Sequences, FiniteSets, Bags, TLC

VARIABLES
    clock,          \* wall clock (hours); what `new Date()` returns
    env,            \* process.env and the reachability of the webhook event store
    syncs,          \* the local state of each syncJobAlertsForUser invocation
    rateLimits,     \* globalThis.__faypathRateLimits, its clock and its results
    searchCfg,      \* SavedSearch rows: the delivery settings of each search
    lastDigestAt,   \* SavedSearch.lastDigestAt of each search
    alerts,         \* JobAlert rows, in id order (id = position)
    logs,           \* AlertDeliveryLog rows, a bag: the table holds equal rows
    run,            \* the local state of each runAlertDeliveryJob invocation
    used,           \* how much of each bound the behaviour has used so far
    lastPreview,    \* result of the latest getAlertDeliveryPreview still current
    accepted,       \* history: a bag of the <<alert id, channel>> pairs a
                    \* provider accepted, one copy for each time it did
    retryDue,       \* history: what the latest finished run left rejected
    schema,         \* which constraints the database enforces
    candidate,      \* the User row of the applicant
    applications,   \* Application rows, in id order (id = position)
    fraudEvents,    \* FraudEvent rows, in creation order
    post,           \* the local state of each POST /api/applications request
    interviews,     \* Interview rows, in id order (id = position)
    pipe,           \* the local state of each runPipelineAutomation invocation
    pipeUsed        \* how much of the pipeline bounds the behaviour has used,
                    \* and how often automation wrote each application's status

deliveryVars == <<searchCfg, lastDigestAt, alerts, logs, run,
                  used, lastPreview, accepted, retryDue>>

hiringVars == <<schema, candidate, applications, fraudEvents, post,
                interviews, pipe, pipeUsed>>

processVars == <<env, syncs, rateLimits>>

vars == <<clock, processVars, deliveryVars, hiringVars>>

dbVars == <<searchCfg, lastDigestAt, alerts, logs>>

----------------------------------------------------------------------------
(* Bounds of the model *)

MaxRuns == 2        \* delivery runs started
MaxTicks == 1       \* clock advances
MaxRejects == 1     \* provider calls that end accepted = false
MaxMarks == 1       \* PATCH /api/alerts calls

(* Values *)

NULL == 0
ALL == 0                       \* userId undefined: scope "all"
Users == {1, 2}
SearchIds == {1, 2}
JobIds == {1, 2}
Runs == {1, 2}
ClockSteps == {25, 168}
StartHours == {9}

----------------------------------------------------------------------------
(* Pure helpers of lib/alert-delivery *)

NormalizeCadence(value) ==
    IF value = "instant" \/ value = "weekly" THEN value ELSE "daily"

(* an interval that treats every digest cadence as daily *)
CadenceIntervalDay(cadence) == 24

CadenceIntervalHours(cadence) ==
    IF cadence = "weekly" THEN 7 * 24 ELSE 24

GetHours(t) == t % 24

(* a due test that looks at the hour of day only *)
IsDigestDueHourOnly(cadence, digestHour, last, now) == GetHours(now) >= digestHour

IsDigestDue(cadence, digestHour, last, now) ==
    IF GetHours(now) < digestHour THEN FALSE
    ELSE IF last = NULL THEN TRUE
    ELSE (now - last) >= CadenceIntervalHours(cadence)

(* ascending enumeration of a finite set of numbers *)
RECURSIVE SetToSeq(_)
SetToSeq(S) ==
    IF S = {} THEN <<>>
    ELSE LET m == CHOOSE x \in S : \A y \in S : x <= y
         IN <<m>> \o SetToSeq(S \ {m})

Ids(s) == {s[i].id : i \in 1..Len(s)}

(* channelPendingCounts over one fetched search *)
ChannelPendingCounts(search) ==
    LET cfg == searchCfg[search.id]
        emailAlerts ==
            IF cfg.emailEnabled
            THEN SelectSeq(search.alerts, LAMBDA a : a.emailSentAt = NULL)
            ELSE <<>>
        inAppAlerts ==
            IF cfg.inAppEnabled
            THEN SelectSeq(search.alerts, LAMBDA a : a.inAppSentAt = NULL)
            ELSE <<>>
        pushAlerts ==
            IF cfg.pushEnabled
            THEN SelectSeq(search.alerts, LAMBDA a : a.pushSentAt = NULL)
            ELSE <<>>
    IN [emailAlerts |-> emailAlerts,
        inAppAlerts |-> inAppAlerts,
        pushAlerts |-> pushAlerts,
        pendingUniqueCount |->
            Cardinality(Ids(emailAlerts) \cup Ids(inAppAlerts) \cup Ids(pushAlerts))]

(* the rows of `alerts` that belong to search s, with their ids *)
AlertsOfSearch(s) ==
    LET idx == SelectSeq([i \in 1..Len(alerts) |-> i],
                         LAMBDA i : alerts[i].savedSearchId = s)
    IN [k \in 1..Len(idx) |->
            [id |-> idx[k],
             emailSentAt |-> alerts[idx[k]].emailSentAt,
             inAppSentAt |-> alerts[idx[k]].inAppSentAt,
             pushSentAt |-> alerts[idx[k]].pushSentAt]]

(* fetchPendingSearches: searches of the user (all users when userId is     *)
(* ALL) with a channel enabled, each with its alerts that miss a timestamp  *)
FetchPendingSearches(userId) ==
    LET ids == SelectSeq(SetToSeq(SearchIds),
                   LAMBDA s : /\ (userId = ALL \/ searchCfg[s].userId = userId)
                              /\ \/ searchCfg[s].emailEnabled
                                 \/ searchCfg[s].inAppEnabled
                                 \/ searchCfg[s].pushEnabled)
    IN [k \in 1..Len(ids) |->
            [id |-> ids[k],
             lastDigestAt |-> lastDigestAt[ids[k]],
             alerts |-> SelectSeq(AlertsOfSearch(ids[k]),
                            LAMBDA a : \/ a.emailSentAt = NULL
                                       \/ a.inAppSentAt = NULL
                                       \/ a.pushSentAt = NULL)]]

----------------------------------------------------------------------------
(* lib/job-alerts: matching and alert sync *)

JobRecord(j) ==
    IF j = 1 THEN [mode |-> "remote", meritFit |-> 90, tags |-> {"frontend", "react"}]
    ELSE [mode |-> "onsite", meritFit |-> 80, tags |-> {"backend"}]

SearchQuery(s) ==
    IF s = 1 THEN [mode |-> "all", keyword |-> "", minScore |-> 0]
    ELSE [mode |-> "remote", keyword |-> "frontend", minScore |-> 85]

IsWorkMode(value) == value \in {"remote", "hybrid", "onsite"}

IsSavedSearchMode(value) == value = "all" \/ IsWorkMode(value)

MatchesSearch(job, search) ==
    IF ~IsSavedSearchMode(search.mode) THEN FALSE
    ELSE LET modeMatches == search.mode = "all" \/ search.mode = job.mode
             keywordMatches == search.keyword = "" \/ search.keyword \in job.tags
             scoreMatches == job.meritFit >= search.minScore
         IN modeMatches /\ keywordMatches /\ scoreMatches

HasAlert(rows, u, s, j) ==
    \E i \in 1..Len(rows) :
        rows[i].userId = u /\ rows[i].savedSearchId = s /\ rows[i].jobId = j

(* an upsert whose update branch writes the create payload again *)
UpsertAlertReset(rows, u, s, j) ==
    IF HasAlert(rows, u, s, j)
    THEN [i \in 1..Len(rows) |->
            IF rows[i].userId = u /\ rows[i].savedSearchId = s /\ rows[i].jobId = j
            THEN [rows[i] EXCEPT !.emailSentAt = NULL, !.inAppSentAt = NULL,
                                 !.pushSentAt = NULL]
            ELSE rows[i]]
    ELSE Append(rows, [userId |-> u, savedSearchId |-> s, jobId |-> j,
                       emailSentAt |-> NULL, inAppSentAt |-> NULL,
                       pushSentAt |-> NULL, readAt |-> NULL])

(* prisma.jobAlert.upsert with update: {} *)
UpsertAlert(rows, u, s, j) ==
    IF HasAlert(rows, u, s, j) THEN rows
    ELSE Append(rows, [userId |-> u, savedSearchId |-> s, jobId |-> j,
                       emailSentAt |-> NULL, inAppSentAt |-> NULL,
                       pushSentAt |-> NULL, readAt |-> NULL])

(* the upserts of one sync, applied pair by pair *)
RECURSIVE UpsertAll(_, _, _)
UpsertAll(rows, u, pairs) ==
    IF pairs = <<>> THEN rows
    ELSE UpsertAll(UpsertAlert(rows, u, Head(pairs)[1], Head(pairs)[2]), u, Tail(pairs))

SyncPairs(u, jobSet) ==
    LET RECURSIVE Build(_, _)
        Build(ss, js) ==
            IF ss = <<>> THEN <<>>
            ELSE IF js = <<>> THEN Build(Tail(ss), SetToSeq(jobSet))
            ELSE IF MatchesSearch(JobRecord(Head(js)), SearchQuery(Head(ss)))
                 THEN <<<<Head(ss), Head(js)>>>> \o Build(ss, Tail(js))
                 ELSE Build(ss, Tail(js))
    IN Build(SetToSeq({s \in SearchIds : searchCfg[s].userId = u}), SetToSeq(jobSet))

SyncedAlerts(rows, u, jobSet) ==
    IF {s \in SearchIds : searchCfg[s].userId = u} = {} \/ jobSet = {} THEN rows
    ELSE UpsertAll(rows, u, SyncPairs(u, jobSet))

----------------------------------------------------------------------------
(* Rows and run-local state *)

SetEmailSent(rows, ids, now) ==
    [i \in 1..Len(rows) |->
        IF i \in ids THEN [rows[i] EXCEPT !.emailSentAt = now] ELSE rows[i]]

SetInAppSent(rows, ids, now) ==
    [i \in 1..Len(rows) |->
        IF i \in ids THEN [rows[i] EXCEPT !.inAppSentAt = now] ELSE rows[i]]

SetPushSent(rows, ids, now) ==
    [i \in 1..Len(rows) |->
        IF i \in ids THEN [rows[i] EXCEPT !.pushSentAt = now] ELSE rows[i]]

LogRow(search, alertId, channel, kind, ok) ==
    [savedSearchId |-> search, alertId |-> alertId, channel |-> channel,
     kind |-> kind, accepted |-> ok]

(* createInternalDeliveryLogs: one row per alert, all accepted *)
InternalDeliveryLogs(search, alertSeq, kind) ==
    [k \in 1..Len(alertSeq) |-> LogRow(search, alertSeq[k].id, "in_app", kind, TRUE)]

(* prisma.alertDeliveryLog.create: one more row in the table *)
CreateLog(table, row) == table (+) SetToBag({row})

(* prisma.alertDeliveryLog.createMany *)
RECURSIVE CreateMany(_, _)
CreateMany(table, rows) ==
    IF rows = <<>> THEN table
    ELSE CreateMany(CreateLog(table, Head(rows)), Tail(rows))

(* process.env as the integrations read it *)
Environments ==
    [emailProvider : {"log", "resend"}, resendApiKey : BOOLEAN,
     pushProvider : {"log", "webhook"}, pushWebhookUrl : BOOLEAN,
     webhookEventStore : {"up", "down"}]

(* both external providers selected and configured, event store reachable *)
EnvConfigured ==
    [emailProvider |-> "resend", resendApiKey |-> TRUE,
     pushProvider |-> "webhook", pushWebhookUrl |-> TRUE,
     webhookEventStore |-> "up"]

NoError == "null"

(* what a selected external provider answers to a request: accepted, or a   *)
(* non-2xx status or network error                                          *)
ProviderAnswers(failure) ==
    IF used.rejects < MaxRejects
    THEN {[accepted |-> TRUE, error |-> NoError], [accepted |-> FALSE, error |-> failure]}
    ELSE {[accepted |-> TRUE, error |-> NoError]}

(* the outcomes sendIntegrationEmail can return *)
SendIntegrationEmail ==
    IF env.emailProvider = "resend"
    THEN IF ~env.resendApiKey
         THEN {[accepted |-> FALSE, error |-> "RESEND_API_KEY is not set"]}
         ELSE ProviderAnswers("Resend API")
    ELSE {[accepted |-> TRUE, error |-> NoError]}

(* the outcomes sendIntegrationPush can return *)
SendIntegrationPush ==
    IF env.pushProvider = "webhook"
    THEN IF ~env.pushWebhookUrl
         THEN {[accepted |-> FALSE, error |-> "PUSH_WEBHOOK_URL is not set"]}
         ELSE ProviderAnswers("Push webhook")
    ELSE {[accepted |-> TRUE, error |-> NoError]}

(* a rejected provider call uses up one of the MaxRejects *)
Spend(res) == [used EXCEPT !.rejects = IF res.accepted THEN @ ELSE @ + 1]

ZeroSummary ==
    [searchesScanned |-> 0, attemptedDeliveries |-> 0, alertsDelivered |-> 0,
     instantAlertsDelivered |-> 0, digestAlertsDelivered |-> 0,
     failedDeliveries |-> 0, digestRuns |-> 0, logsCreated |-> 0,
     waitingDigestSearches |-> 0, email |-> 0, inApp |-> 0, push |-> 0]

(* number of alerts pending on a channel: channel enabled on the owning     *)
(* search and the channel's timestamp null                                  *)
PendingEmail ==
    Cardinality({i \in 1..Len(alerts) :
        searchCfg[alerts[i].savedSearchId].emailEnabled /\ alerts[i].emailSentAt = NULL})

PendingInApp ==
    Cardinality({i \in 1..Len(alerts) :
        searchCfg[alerts[i].savedSearchId].inAppEnabled /\ alerts[i].inAppSentAt = NULL})

PendingPush ==
    Cardinality({i \in 1..Len(alerts) :
        searchCfg[alerts[i].savedSearchId].pushEnabled /\ alerts[i].pushSentAt = NULL})

IdleRun ==
    [pc |-> "idle", now |-> NULL, userId |-> ALL, searches |-> <<>>, idx |-> 0,
     todo |-> <<>>, summary |-> ZeroSummary,
     attempted |-> {}, rejected |-> {}, won |-> {},
     pendingBefore |-> [email |-> 0, inApp |-> 0, push |-> 0],
     preview |-> {}, obligation |-> {}]

NoRetry == [userId |-> ALL, pairs |-> {}]

Pairs(alertSeq, channel) == {<<alertSeq[k].id, channel>> : k \in 1..Len(alertSeq)}

----------------------------------------------------------------------------
(* State after construction: the seeded jobs, the saved searches, and the    *)
(* alerts of user 2, who has opened the alerts page; user 1 has not yet      *)

Cadences == {"instant", "daily", "weekly"}
DigestHours == {9, 10}

SearchSettings ==
    [digestCadence : Cadences, digestHour : DigestHours,
     emailEnabled : BOOLEAN, inAppEnabled : BOOLEAN,
     pushEnabled : BOOLEAN, pushDeferred : BOOLEAN]

AllChannels(c) == c.emailEnabled /\ c.inAppEnabled /\ c.pushEnabled

(* the settings of search 1: every cadence with all three channels enabled, *)
(* digest hour 9; pushDeferred is read for instant searches only            *)
Settings1 ==
    {c \in SearchSettings :
        /\ AllChannels(c)
        /\ c.digestHour = 9
        /\ c.digestCadence # "instant" => ~c.pushDeferred}

(* the settings of search 2: a daily digest at hour 10 on email and in-app *)
Settings2 ==
    {c \in SearchSettings :
        /\ c.digestCadence = "daily" /\ c.digestHour = 10
        /\ c.emailEnabled /\ c.inAppEnabled /\ ~c.pushEnabled /\ ~c.pushDeferred}

OwnerOf(s) == IF s = 1 THEN 1 ELSE 2

WithOwner(c, s) ==
    [userId |-> OwnerOf(s), digestCadence |-> c.digestCadence,
     digestHour |-> c.digestHour, emailEnabled |-> c.emailEnabled,
     inAppEnabled |-> c.inAppEnabled, pushEnabled |-> c.pushEnabled,
     pushDeferred |-> c.pushDeferred]

(* no applicant, application, interview or pipeline run *)
HiringIdle ==
    /\ schema = [uniqueApplicantJob |-> TRUE]
    /\ candidate = <<>>
    /\ applications = <<>>
    /\ fraudEvents = <<>>
    /\ post = <<>>
    /\ interviews = <<>>
    /\ pipe = <<>>
    /\ pipeUsed = <<>>

Init ==
    /\ HiringIdle
    /\ env = EnvConfigured /\ syncs = <<>> /\ rateLimits = <<>>
    /\ clock \in StartHours
    /\ \E c1 \in Settings1, c2 \in Settings2 :
           searchCfg = [s \in SearchIds |-> WithOwner(IF s = 1 THEN c1 ELSE c2, s)]
    /\ lastDigestAt = [s \in SearchIds |-> NULL]
    /\ alerts = SyncedAlerts(<<>>, 2, JobIds)
    /\ logs = EmptyBag
    /\ run = [r \in Runs |-> IdleRun]
    /\ used = [runs |-> 0, ticks |-> 0, rejects |-> 0, marks |-> 0]
    /\ lastPreview = {}
    /\ accepted = EmptyBag
    /\ retryDue = NoRetry

----------------------------------------------------------------------------
(* Operations outside the delivery run *)

(* time passes *)
Tick ==
    /\ used.ticks < MaxTicks
    /\ \E d \in ClockSteps : clock' = clock + d
    /\ used' = [used EXCEPT !.ticks = @ + 1]
    /\ lastPreview' = {}
    /\ retryDue' = NoRetry
    /\ UNCHANGED <<processVars, hiringVars, dbVars, run, accepted>>

(* GET /api/alerts: syncJobAlertsForUser for the session user *)
SyncJobAlertsForUser(u) ==
    /\ alerts' = SyncedAlerts(alerts, u, JobIds)
    /\ alerts' # alerts
    /\ lastPreview' = {}
    /\ retryDue' = NoRetry
    /\ UNCHANGED <<processVars, hiringVars, clock, searchCfg, lastDigestAt, logs, run, used, accepted>>

(* prisma.jobAlert.updateMany({where: {id?, userId, readAt: null}, data: {readAt}}) *)
MarkRead(rows, u, ids, now) ==
    [i \in 1..Len(rows) |->
        IF i \in ids /\ rows[i].userId = u /\ rows[i].readAt = NULL
        THEN [rows[i] EXCEPT !.readAt = now] ELSE rows[i]]

(* PATCH /api/alerts: markAll, or one alertId; anything else is a 400 *)
MarkAlertsRead(u, markAll, alertId) ==
    /\ used.marks < MaxMarks
    /\ alerts' = IF markAll THEN MarkRead(alerts, u, 1..Len(alerts), clock)
                 ELSE IF alertId # NULL THEN MarkRead(alerts, u, {alertId}, clock)
                 ELSE alerts
    /\ alerts' # alerts
    /\ used' = [used EXCEPT !.marks = @ + 1]
    /\ lastPreview' = {}
    /\ retryDue' = NoRetry
    /\ UNCHANGED <<processVars, hiringVars, clock, searchCfg, lastDigestAt, logs, run, accepted>>

(* the counters getAlertDeliveryPreview accumulates over the fetched searches *)
RECURSIVE PreviewCounts(_, _, _)
PreviewCounts(searches, now, acc) ==
    IF searches = <<>> THEN acc
    ELSE LET search == Head(searches)
             channelCounts == ChannelPendingCounts(search)
             cadence == NormalizeCadence(searchCfg[search.id].digestCadence)
             base == [acc EXCEPT
                 !.pendingAlerts = @ + channelCounts.pendingUniqueCount,
                 !.pendingEmailAlerts = @ + Len(channelCounts.emailAlerts),
                 !.pendingInAppAlerts = @ + Len(channelCounts.inAppAlerts),
                 !.pendingPushAlerts = @ + Len(channelCounts.pushAlerts)]
         IN IF channelCounts.pendingUniqueCount = 0
            THEN PreviewCounts(Tail(searches), now, acc)
            ELSE IF cadence = "instant"
            THEN PreviewCounts(Tail(searches), now,
                     [base EXCEPT !.pendingInstantAlerts =
                                      @ + channelCounts.pendingUniqueCount])
            ELSE IF IsDigestDue(cadence, searchCfg[search.id].digestHour,
                                search.lastDigestAt, now)
            THEN PreviewCounts(Tail(searches), now,
                     [base EXCEPT !.dueDigestSearches = @ + 1])
            ELSE PreviewCounts(Tail(searches), now,
                     [base EXCEPT !.waitingDigestSearches = @ + 1])

ZeroPreview ==
    [pendingAlerts |-> 0, pendingEmailAlerts |-> 0, pendingInAppAlerts |-> 0,
     pendingPushAlerts |-> 0, pendingInstantAlerts |-> 0,
     dueDigestSearches |-> 0, waitingDigestSearches |-> 0]

(* a preview that also stamps lastDigestAt of the searches it looked at *)
GetAlertDeliveryPreviewMarking(u) ==
    /\ lastPreview' = {[userId |-> u, now |-> clock,
                        counts |-> PreviewCounts(FetchPendingSearches(u), clock,
                                                 ZeroPreview)]}
    /\ lastPreview' # lastPreview
    /\ lastDigestAt' = [s \in SearchIds |->
          IF u = ALL \/ searchCfg[s].userId = u THEN clock ELSE lastDigestAt[s]]
    /\ UNCHANGED <<processVars, hiringVars, clock, searchCfg, alerts, logs, run, used, accepted, retryDue>>

(* getAlertDeliveryPreview({scope, userId}) *)
GetAlertDeliveryPreview(u) ==
    /\ lastPreview' = {[userId |-> u, now |-> clock,
                        counts |-> PreviewCounts(FetchPendingSearches(u), clock,
                                                 ZeroPreview)]}
    /\ lastPreview' # lastPreview
    /\ UNCHANGED <<processVars, hiringVars, clock, dbVars, run, used, accepted, retryDue>>

----------------------------------------------------------------------------
(* runAlertDeliveryJob, one step per provider call or store write batch *)

Cur(r) == run[r].searches[run[r].idx]

CurCounts(r) == ChannelPendingCounts(Cur(r))

CurCadence(r) == NormalizeCadence(searchCfg[Cur(r).id].digestCadence)

(* an email attempt whose timestamp write ignores the provider's answer *)
AfterEmailResultAlways(rows, ids, now, ok) == SetEmailSent(rows, ids, now)

(* rows after an email attempt covering alerts `ids`: written iff accepted *)
AfterEmailResult(rows, ids, now, ok) ==
    IF ok THEN SetEmailSent(rows, ids, now) ELSE rows

(* a push attempt whose timestamp write is lost *)
AfterPushResultDropped(rows, ids, now, ok) == rows

(* rows after a push attempt covering alerts `ids`: written iff accepted *)
AfterPushResult(rows, ids, now, ok) ==
    IF ok THEN SetPushSent(rows, ids, now) ELSE rows

(* a loop body without the `continue` that ends the instant branch: every  *)
(* processed search goes on to the lastDigestAt update                      *)
PhaseAfterNoContinue(r, phase) ==
    LET counts == ChannelPendingCounts(run[r].searches[run[r].idx])
        fromPush == IF Len(counts.pushAlerts) > 0 THEN "push" ELSE "mark"
        fromInApp == IF Len(counts.inAppAlerts) > 0 THEN "inapp" ELSE fromPush
        fromEmail == IF Len(counts.emailAlerts) > 0 THEN "email" ELSE fromInApp
    IN CASE phase = "scan" -> fromEmail
         [] phase = "email" -> fromInApp
         [] phase = "inapp" -> fromPush
         [] OTHER -> "mark"

(* the branch of the loop body that runs after `phase` for the current      *)
(* search: the channel blocks in source order, those without pending alerts *)
(* skipped; an instant search then continues with the next search ("scan"), *)
(* a digest search first stores lastDigestAt ("mark")                       *)
PhaseAfter(r, phase) ==
    LET counts == CurCounts(r)
        last == IF CurCadence(r) = "instant" THEN "scan" ELSE "mark"
        fromPush == IF Len(counts.pushAlerts) > 0 THEN "push" ELSE last
        fromInApp == IF Len(counts.inAppAlerts) > 0 THEN "inapp" ELSE fromPush
        fromEmail == IF Len(counts.emailAlerts) > 0 THEN "email" ELSE fromInApp
    IN CASE phase = "scan" -> fromEmail
         [] phase = "email" -> fromInApp
         [] phase = "inapp" -> fromPush
         [] OTHER -> last

Goto(rec, next) ==
    [rec EXCEPT !.pc = next, !.idx = IF next = "scan" THEN @ + 1 ELSE @]

(* emitOutboundIntegrationEvent: stores the event row, posts it, stores the *)
(* outcome; a failed post is an outcome, a failed store write is thrown     *)
EmitOutboundIntegrationEvent ==
    IF env.webhookEventStore = "down" THEN "throws" ELSE "returns"

(* an emitDeliveryWebhookEvent without its try/catch *)
EmitDeliveryWebhookEventUncaught(outcome) == outcome

(* emitDeliveryWebhookEvent: whatever the emit does, the catch block logs   *)
(* the error and the call returns                                           *)
EmitDeliveryWebhookEvent(outcome) == "returns"

(* the run after the audit event of a delivery: it goes on as `rec`, or the *)
(* exception leaves runAlertDeliveryJob and the request fails               *)
AfterEmit(rec, thrown) ==
    IF EmitDeliveryWebhookEvent(EmitOutboundIntegrationEvent) = "throws"
    THEN [thrown EXCEPT !.pc = "failed"]
    ELSE rec

(* history kept with a run: which <<alert, channel>> pairs it attempted,    *)
(* and which of them ended rejected or delivered                            *)
Noted(rec, pairs, ok) ==
    [rec EXCEPT !.attempted = @ \cup pairs,
                !.rejected = IF ok THEN @ ELSE @ \cup pairs,
                !.won = IF ok THEN @ \cup pairs ELSE @]

(* const now = new Date(); const searches = await fetchPendingSearches(userId) *)
RunStart(r, u) ==
    /\ run[r].pc = "idle"
    /\ used.runs < MaxRuns
    /\ used' = [used EXCEPT !.runs = @ + 1]
    /\ run' = [run EXCEPT ![r] =
          [IdleRun EXCEPT
              !.pc = "scan", !.now = clock, !.userId = u,
              !.searches = FetchPendingSearches(u), !.idx = 1,
              !.pendingBefore = [email |-> PendingEmail, inApp |-> PendingInApp,
                                 push |-> PendingPush],
              !.preview = {p \in lastPreview : p.userId = u /\ p.now = clock},
              !.obligation = {p \in retryDue.pairs :
                                 u = ALL \/ alerts[p[1]].userId = u}]]
    /\ lastPreview' = {}
    /\ retryDue' = NoRetry
    /\ UNCHANGED <<processVars, hiringVars, clock, dbVars, accepted>>

(* loop head: next search, skip it when nothing is pending or the digest    *)
(* is not due; after the last search the summary is complete                *)
RunScan(r) ==
    /\ run[r].pc = "scan"
    /\ IF run[r].idx > Len(run[r].searches)
       THEN run' = [run EXCEPT ![r].pc = "done"]
       ELSE LET counts == CurCounts(r)
                cadence == CurCadence(r)
                isInstant == cadence = "instant"
                isDueDigest ==
                    ~isInstant /\ IsDigestDue(cadence, searchCfg[Cur(r).id].digestHour,
                                              Cur(r).lastDigestAt, run[r].now)
                scanned == [run[r].summary EXCEPT !.searchesScanned = @ + 1]
            IN IF counts.pendingUniqueCount = 0
               THEN run' = [run EXCEPT ![r].summary = scanned, ![r].idx = @ + 1]
               ELSE IF ~isInstant /\ ~isDueDigest
               THEN run' = [run EXCEPT
                       ![r].summary = [scanned EXCEPT !.waitingDigestSearches = @ + 1],
                       ![r].idx = @ + 1]
               ELSE run' = [run EXCEPT
                       ![r].summary = scanned,
                       ![r].pc = PhaseAfter(r, "scan"),
                       ![r].todo = IF isInstant THEN counts.emailAlerts ELSE <<>>]
    /\ UNCHANGED <<processVars, hiringVars, clock, dbVars, used, lastPreview, accepted, retryDue>>

(* return the summary to the caller *)
RunReturn(r) ==
    /\ run[r].pc = "done"
    /\ run' = [run EXCEPT ![r] = IdleRun]
    /\ retryDue' = [userId |-> run[r].userId, pairs |-> run[r].rejected]
    /\ UNCHANGED <<processVars, hiringVars, clock, dbVars, used, lastPreview, accepted>>

(* instant cadence, email: one message per pending alert *)
RunEmailInstant(r) ==
    /\ run[r].pc = "email"
    /\ CurCadence(r) = "instant"
    /\ \E res \in SendIntegrationEmail :
        LET alert == Head(run[r].todo)
            pairs == {<<alert.id, "email">>}
            sm == [run[r].summary EXCEPT
                      !.attemptedDeliveries = @ + 1, !.logsCreated = @ + 1]
            rec == [Noted(run[r], pairs, res.accepted) EXCEPT
                      !.todo = Tail(@),
                      !.summary =
                          IF res.accepted
                          THEN [sm EXCEPT !.alertsDelivered = @ + 1,
                                          !.instantAlertsDelivered = @ + 1,
                                          !.email = @ + 1]
                          ELSE [sm EXCEPT !.failedDeliveries = @ + 1]]
        IN /\ used' = Spend(res)
           /\ logs' = CreateLog(logs, LogRow(Cur(r).id, alert.id, "email", "instant",
                                          res.accepted))
           /\ alerts' = AfterEmailResult(alerts, {alert.id}, run[r].now, res.accepted)
           /\ accepted' = IF res.accepted THEN accepted (+) SetToBag(pairs) ELSE accepted
           /\ run' = [run EXCEPT ![r] =
                 AfterEmit(IF rec.todo = <<>> THEN Goto(rec, PhaseAfter(r, "email"))
                           ELSE rec, rec)]
    /\ UNCHANGED <<processVars, hiringVars, clock, searchCfg, lastDigestAt, lastPreview, retryDue>>

(* due digest, email: all pending alerts in a single message *)
RunEmailDigest(r) ==
    /\ run[r].pc = "email"
    /\ CurCadence(r) # "instant"
    /\ \E res \in SendIntegrationEmail :
        LET emailAlerts == CurCounts(r).emailAlerts
            n == Len(emailAlerts)
            pairs == Pairs(emailAlerts, "email")
            sm == [run[r].summary EXCEPT
                      !.attemptedDeliveries = @ + 1, !.logsCreated = @ + 1]
            rec == [Noted(run[r], pairs, res.accepted) EXCEPT
                      !.summary =
                          IF res.accepted
                          THEN [sm EXCEPT !.alertsDelivered = @ + n,
                                          !.digestAlertsDelivered = @ + n,
                                          !.email = @ + n,
                                          !.digestRuns = @ + 1]
                          ELSE [sm EXCEPT !.failedDeliveries = @ + 1]]
        IN /\ used' = Spend(res)
           /\ logs' = CreateLog(logs, LogRow(Cur(r).id, NULL, "email", "digest",
                                          res.accepted))
           /\ alerts' = AfterEmailResult(alerts, Ids(emailAlerts), run[r].now,
                                         res.accepted)
           /\ accepted' = IF res.accepted THEN accepted (+) SetToBag(pairs) ELSE accepted
           /\ run' = [run EXCEPT ![r] =
                 AfterEmit(Goto(rec, PhaseAfter(r, "email")), rec)]
    /\ UNCHANGED <<processVars, hiringVars, clock, searchCfg, lastDigestAt, lastPreview, retryDue>>

(* an in-app block that counts one attempt per alert for every cadence *)
InAppAttemptsPerAlert(isInstant, n) == n

(* an in-app block that counts one attempt per search for every cadence *)
InAppAttemptsOne(isInstant, n) == 1

(* attempts the in-app block counts: one per alert when instant, one per    *)
(* search when digest                                                       *)
InAppAttempts(isInstant, n) == IF isInstant THEN n ELSE 1

(* in-app channel: log rows for all pending alerts, then mark them sent *)
RunInApp(r) ==
    /\ run[r].pc = "inapp"
    /\ LET inAppAlerts == CurCounts(r).inAppAlerts
           n == Len(inAppAlerts)
           isInstant == CurCadence(r) = "instant"
           created == InternalDeliveryLogs(Cur(r).id, inAppAlerts,
                                           IF isInstant THEN "instant" ELSE "digest")
           rec == [Noted(run[r], Pairs(inAppAlerts, "in_app"), TRUE) EXCEPT
                     !.summary = [@ EXCEPT
                         !.attemptedDeliveries = @ + InAppAttempts(isInstant, n),
                         !.logsCreated = @ + Len(created),
                         !.inApp = @ + n,
                         !.alertsDelivered = @ + n,
                         !.instantAlertsDelivered = IF isInstant THEN @ + n ELSE @,
                         !.digestAlertsDelivered = IF isInstant THEN @ ELSE @ + n]]
       IN /\ logs' = CreateMany(logs, created)
          /\ alerts' = SetInAppSent(alerts, Ids(inAppAlerts), run[r].now)
          /\ run' = [run EXCEPT ![r] = Goto(rec, PhaseAfter(r, "inapp"))]
    /\ UNCHANGED <<processVars, hiringVars, clock, searchCfg, lastDigestAt, used, lastPreview, accepted,
                   retryDue>>

(* a deliverPushDigest that reports no failed attempt *)
PushDigestResultNoFailure(n, ok) ==
    [accepted |-> ok, deliveredAlerts |-> IF ok THEN n ELSE 0,
     failedAttempts |-> 0, logsCreated |-> 1]

(* what deliverPushDigest returns for a batch of n alerts *)
PushDigestResult(n, ok) ==
    [accepted |-> ok,
     deliveredAlerts |-> IF ok THEN n ELSE 0,
     failedAttempts |-> IF ok THEN 0 ELSE 1,
     logsCreated |-> 1]

(* push channel, one batch (deliverPushDigest): a deferred instant search   *)
(* or a due digest                                                          *)
RunPushDigest(r) ==
    /\ run[r].pc = "push"
    /\ CurCadence(r) # "instant" \/ searchCfg[Cur(r).id].pushDeferred
    /\ \E res \in SendIntegrationPush :
        LET pushAlerts == CurCounts(r).pushAlerts
            pairs == Pairs(pushAlerts, "push")
            result == PushDigestResult(Len(pushAlerts), res.accepted)
            rec == [Noted(run[r], pairs, res.accepted) EXCEPT
                      !.summary = [@ EXCEPT
                          !.attemptedDeliveries = @ + 1,
                          !.logsCreated = @ + result.logsCreated,
                          !.failedDeliveries = @ + result.failedAttempts,
                          !.push = @ + result.deliveredAlerts,
                          !.alertsDelivered = @ + result.deliveredAlerts,
                          !.digestAlertsDelivered = @ + result.deliveredAlerts]]
        IN /\ used' = Spend(res)
           /\ logs' = CreateLog(logs, LogRow(Cur(r).id, NULL, "push", "digest",
                                          res.accepted))
           /\ alerts' = AfterPushResult(alerts, Ids(pushAlerts), run[r].now,
                                        res.accepted)
           /\ accepted' = IF res.accepted THEN accepted (+) SetToBag(pairs) ELSE accepted
           /\ run' = [run EXCEPT ![r] =
                 AfterEmit(Goto(rec, PhaseAfter(r, "push")), rec)]
    /\ UNCHANGED <<processVars, hiringVars, clock, searchCfg, lastDigestAt, lastPreview, retryDue>>

(* push channel, instant and not deferred: the attempts are counted, then   *)
(* deliverPushInstantPerAlert sends one push per alert                      *)
RunPushInstant(r) ==
    /\ run[r].pc = "push"
    /\ CurCadence(r) = "instant" /\ ~searchCfg[Cur(r).id].pushDeferred
    /\ run' = [run EXCEPT
          ![r].pc = "pushEach",
          ![r].todo = CurCounts(r).pushAlerts,
          ![r].summary = [@ EXCEPT
              !.attemptedDeliveries = @ + Len(CurCounts(r).pushAlerts)]]
    /\ UNCHANGED <<processVars, hiringVars, clock, dbVars, used, lastPreview, accepted, retryDue>>

(* deliverPushInstantPerAlert: the loop body for the next alert *)
RunPushEach(r) ==
    /\ run[r].pc = "pushEach"
    /\ \E res \in SendIntegrationPush :
        LET alert == Head(run[r].todo)
            pairs == {<<alert.id, "push">>}
            rec == [Noted(run[r], pairs, res.accepted) EXCEPT
                      !.todo = Tail(@),
                      !.summary =
                          IF res.accepted
                          THEN [@ EXCEPT !.logsCreated = @ + 1,
                                         !.push = @ + 1,
                                         !.alertsDelivered = @ + 1,
                                         !.instantAlertsDelivered = @ + 1]
                          ELSE [@ EXCEPT !.logsCreated = @ + 1,
                                         !.failedDeliveries = @ + 1]]
        IN /\ used' = Spend(res)
           /\ logs' = CreateLog(logs, LogRow(Cur(r).id, alert.id, "push", "instant",
                                          res.accepted))
           /\ alerts' = AfterPushResult(alerts, {alert.id}, run[r].now, res.accepted)
           /\ accepted' = IF res.accepted THEN accepted (+) SetToBag(pairs) ELSE accepted
           /\ run' = [run EXCEPT ![r] =
                 AfterEmit(IF rec.todo = <<>> THEN Goto(rec, PhaseAfter(r, "push"))
                           ELSE rec, rec)]
    /\ UNCHANGED <<processVars, hiringVars, clock, searchCfg, lastDigestAt, lastPreview, retryDue>>

(* the value the digest branch stores in lastDigestAt *)
DigestMark(old, now) == now

(* prisma.savedSearch.update({data: {lastDigestAt: now}}) ends a digest search *)
RunMarkDigest(r) ==
    /\ run[r].pc = "mark"
    /\ lastDigestAt' = [lastDigestAt EXCEPT ![Cur(r).id] = DigestMark(@, run[r].now)]
    /\ run' = [run EXCEPT ![r] = Goto(@, "scan")]
    /\ UNCHANGED <<processVars, hiringVars, clock, searchCfg, alerts, logs, used, lastPreview, accepted,
                   retryDue>>

RunStep(r) ==
    \/ RunScan(r)
    \/ RunEmailInstant(r)
    \/ RunEmailDigest(r)
    \/ RunInApp(r)
    \/ RunPushDigest(r)
    \/ RunPushInstant(r)
    \/ RunPushEach(r)
    \/ RunMarkDigest(r)
    \/ RunReturn(r)

(* userId of a run or preview: undefined for scope "all", else the caller *)
Scopes == {ALL, 1}

(* the alertId values a PATCH body carries: none, or the first alert *)
MarkableIds == {NULL} \cup ((1..Len(alerts)) \cap {1})

NoRunActive == \A r \in Runs : run[r].pc = "idle"

(* delivery runs one after the other, with syncs, mark-read requests and    *)
(* previews between them                                                    *)
Next ==
    \/ NoRunActive /\ Tick
    \/ NoRunActive /\ \E u \in Users : SyncJobAlertsForUser(u)
    \/ NoRunActive /\ \E u \in Users, markAll \in BOOLEAN, a \in MarkableIds :
                          MarkAlertsRead(u, markAll, a)
    \/ NoRunActive /\ \E u \in Scopes : GetAlertDeliveryPreview(u)
    \/ NoRunActive /\ \E u \in Scopes : RunStart(1, u)
    \/ RunStep(1)

Spec == Init /\ [][Next]_vars

(* delivery runs whose steps interleave: two requests to POST               *)
(* /api/alerts/delivery served at the same time, over a store in which both *)
(* users' alerts are already synced and search 1 has every channel enabled  *)
InitConc ==
    /\ HiringIdle
    /\ env = EnvConfigured /\ syncs = <<>> /\ rateLimits = <<>>
    /\ clock \in StartHours
    /\ \E c1 \in {c \in Settings1 : ~c.pushDeferred}, c2 \in Settings2 :
           searchCfg = [s \in SearchIds |-> WithOwner(IF s = 1 THEN c1 ELSE c2, s)]
    /\ lastDigestAt = [s \in SearchIds |-> NULL]
    /\ alerts = SyncedAlerts(SyncedAlerts(<<>>, 1, JobIds), 2, JobIds)
    /\ logs = EmptyBag
    /\ run = [r \in Runs |-> IdleRun]
    /\ used = [runs |-> 0, ticks |-> 0, rejects |-> 0, marks |-> 0]
    /\ lastPreview = {}
    /\ accepted = EmptyBag
    /\ retryDue = NoRetry

NextConc ==
    \/ Tick
    \/ \E r \in Runs, u \in Scopes : RunStart(r, u)
    \/ \E r \in Runs : RunStep(r)

SpecConc == InitConc /\ [][NextConc]_vars

(* Alert syncs whose upserts interleave: GET /api/alerts requests and       *)
(* syncJobAlertsForAllUsers served at the same time as a delivery run and   *)
(* mark-read requests. Promise.all starts every upsert of a sync at once;   *)
(* each upsert looks its row up by the unique key and then updates with {}  *)
(* or creates, and a create that meets a row stored in between fails on the *)
(* unique constraint userId_savedSearchId_jobId. The table starts with the  *)
(* alert of user 1 for job 1; job 2 is new to it                            *)
MaxSyncs == 2       \* syncJobAlertsForUser invocations

SyncIds == {1, 2}

IdleSync == [pc |-> "idle", userId |-> NULL, looking |-> {}, creating |-> {},
             conflicts |-> 0]

(* a create that no unique constraint stops *)
CreateAlertUnchecked(rows, u, s, j) ==
    Append(rows, [userId |-> u, savedSearchId |-> s, jobId |-> j,
                  emailSentAt |-> NULL, inAppSentAt |-> NULL,
                  pushSentAt |-> NULL, readAt |-> NULL])

(* the create branch of the upsert: the insert, or the unique constraint    *)
(* violation that leaves the table as it is                                 *)
CreateAlert(rows, u, s, j) ==
    IF HasAlert(rows, u, s, j) THEN rows
    ELSE Append(rows, [userId |-> u, savedSearchId |-> s, jobId |-> j,
                       emailSentAt |-> NULL, inAppSentAt |-> NULL,
                       pushSentAt |-> NULL, readAt |-> NULL])

InitSync ==
    /\ HiringIdle
    /\ env = EnvConfigured /\ rateLimits = <<>>
    /\ syncs = [calls |-> 0, of |-> [k \in SyncIds |-> IdleSync]]
    /\ clock \in StartHours
    /\ \E c1 \in {c \in Settings1 : c.digestCadence # "weekly"}, c2 \in Settings2 :
           searchCfg = [s \in SearchIds |-> WithOwner(IF s = 1 THEN c1 ELSE c2, s)]
    /\ lastDigestAt = [s \in SearchIds |-> NULL]
    /\ alerts = SyncedAlerts(<<>>, 1, {1})
    /\ logs = EmptyBag
    /\ run = [r \in Runs |-> IdleRun]
    /\ used = [runs |-> 0, ticks |-> 0, rejects |-> 0, marks |-> 0]
    /\ lastPreview = {}
    /\ accepted = EmptyBag
    /\ retryDue = NoRetry

(* the two findMany calls and the loops that collect the upserts *)
SyncStart(k, u) ==
    /\ syncs.of[k].pc = "idle"
    /\ syncs.calls < MaxSyncs
    /\ LET pairs == SyncPairs(u, JobIds)
       IN syncs' = [calls |-> syncs.calls + 1,
                    of |-> [syncs.of EXCEPT ![k] =
                               [IdleSync EXCEPT
                                   !.pc = "running", !.userId = u,
                                   !.looking = {pairs[i] : i \in 1..Len(pairs)}]]]
    /\ UNCHANGED <<clock, env, rateLimits, hiringVars, deliveryVars>>

(* an upsert finds its row, and updates it with {}, or finds none *)
SyncUpsertFind(k, pair) ==
    /\ syncs.of[k].pc = "running"
    /\ pair \in syncs.of[k].looking
    /\ syncs' = [syncs EXCEPT
                    !.of[k].looking = @ \ {pair},
                    !.of[k].creating =
                        IF HasAlert(alerts, syncs.of[k].userId, pair[1], pair[2])
                        THEN @ ELSE @ \cup {pair}]
    /\ UNCHANGED <<clock, env, rateLimits, hiringVars, deliveryVars>>

(* an upsert that found no row creates it *)
SyncUpsertCreate(k, pair) ==
    /\ syncs.of[k].pc = "running"
    /\ pair \in syncs.of[k].creating
    /\ alerts' = CreateAlert(alerts, syncs.of[k].userId, pair[1], pair[2])
    /\ syncs' = [syncs EXCEPT
                    !.of[k].creating = @ \ {pair},
                    !.of[k].conflicts = IF alerts' = alerts THEN @ + 1 ELSE @]
    /\ lastPreview' = {}
    /\ retryDue' = NoRetry
    /\ UNCHANGED <<clock, env, rateLimits, hiringVars, searchCfg, lastDigestAt,
                   logs, run, used, accepted>>

(* Promise.all settles: the sync returns, or throws the first rejection *)
SyncReturn(k) ==
    /\ syncs.of[k].pc = "running"
    /\ syncs.of[k].looking = {} /\ syncs.of[k].creating = {}
    /\ syncs' = [syncs EXCEPT !.of[k] = IdleSync]
    /\ UNCHANGED <<clock, env, rateLimits, hiringVars, deliveryVars>>

NoSyncActive == \A k \in SyncIds : syncs.of[k].pc = "idle"

(* syncs whose upserts interleave with each other and with mark-read        *)
(* requests, and delivery runs between them                                 *)
NextSync ==
    \/ NoRunActive /\ \E k \in SyncIds, u \in Users : SyncStart(k, u)
    \/ \E k \in SyncIds, pair \in SearchIds \X JobIds : SyncUpsertFind(k, pair)
    \/ \E k \in SyncIds, pair \in SearchIds \X JobIds : SyncUpsertCreate(k, pair)
    \/ \E k \in SyncIds : SyncReturn(k)
    \/ \E u \in Users, markAll \in BOOLEAN, a \in MarkableIds :
           MarkAlertsRead(u, markAll, a)
    \/ NoSyncActive /\ NoRunActive /\ RunStart(1, 1)
    \/ RunStep(1)

SpecSync == InitSync /\ [][NextSync]_vars

(* previews and runs over a store in which search 1 has had a digest at     *)
(* hour 13 of day 0 or none yet, at clocks before and after the digest hour *)
(* and on both sides of the daily and weekly interval                       *)
DueClocks == {8, 33, 37, 38, 56, 180, 181}
DueLasts == {NULL, 13}

InitDue ==
    /\ HiringIdle
    /\ env = EnvConfigured /\ syncs = <<>> /\ rateLimits = <<>>
    /\ clock \in DueClocks
    /\ \E c1 \in Settings1, c2 \in Settings2 :
           searchCfg = [s \in SearchIds |-> WithOwner(IF s = 1 THEN c1 ELSE c2, s)]
    /\ \E last \in DueLasts :
           /\ last < clock
           /\ lastDigestAt = [s \in SearchIds |-> IF s = 1 THEN last ELSE NULL]
    /\ alerts = SyncedAlerts(SyncedAlerts(<<>>, 1, JobIds), 2, JobIds)
    /\ logs = EmptyBag
    /\ run = [r \in Runs |-> IdleRun]
    /\ used = [runs |-> 0, ticks |-> 0, rejects |-> 0, marks |-> 0]
    /\ lastPreview = {}
    /\ accepted = EmptyBag
    /\ retryDue = NoRetry

NextDue ==
    \/ NoRunActive /\ \E u \in Scopes : GetAlertDeliveryPreview(u)
    \/ NoRunActive /\ \E u \in Scopes : RunStart(1, u)
    \/ RunStep(1)

SpecDue == InitDue /\ [][NextDue]_vars

(* deployments that select the external providers but miss a key, miss the  *)
(* push endpoint, or cannot reach the webhook event store                   *)
FaultyEnvironments ==
    {e \in Environments :
        /\ e.emailProvider = "resend" /\ e.pushProvider = "webhook"
        /\ \/ ~e.resendApiKey
           \/ ~e.pushWebhookUrl
           \/ e.webhookEventStore = "down"}

InitEnv ==
    /\ HiringIdle
    /\ env \in FaultyEnvironments /\ syncs = <<>> /\ rateLimits = <<>>
    /\ clock \in StartHours
    /\ \E c1 \in Settings1, c2 \in Settings2 :
           searchCfg = [s \in SearchIds |-> WithOwner(IF s = 1 THEN c1 ELSE c2, s)]
    /\ lastDigestAt = [s \in SearchIds |-> NULL]
    /\ alerts = SyncedAlerts(SyncedAlerts(<<>>, 1, JobIds), 2, JobIds)
    /\ logs = EmptyBag
    /\ run = [r \in Runs |-> IdleRun]
    /\ used = [runs |-> 0, ticks |-> 0, rejects |-> 0, marks |-> 0]
    /\ lastPreview = {}
    /\ accepted = EmptyBag
    /\ retryDue = NoRetry

NextEnv ==
    \/ NoRunActive /\ \E u \in Scopes : RunStart(1, u)
    \/ RunStep(1)

SpecEnv == InitEnv /\ [][NextEnv]_vars

----------------------------------------------------------------------------
(* Application creation: POST /api/applications and lib/application-scoring *)

MaxPosts == 3       \* POST /api/applications requests

PostIds == 1..MaxPosts
Applicant == 1
AppJobIds == {1, 2}

(* the screeners and skills of the jobs applied to, as parseUniqueList      *)
(* yields them; meritFit is the job's. Jobs 3 and 4 are imported listings   *)
(* at the two ends of the merit range: one asks for nothing but screeners,  *)
(* one lists six required and two preferred skills                          *)
JobScreening(j) ==
    CASE j = 1 ->
           [meritFit |-> JobRecord(1).meritFit, requiredScreeners |-> 1,
            preferredScreeners |-> 1, requiredSkills |-> {"react"},
            preferredSkills |-> {"graphql"}]
      [] j = 3 ->
           [meritFit |-> 99, requiredScreeners |-> 1, preferredScreeners |-> 1,
            requiredSkills |-> {}, preferredSkills |-> {}]
      [] j = 4 ->
           [meritFit |-> 55, requiredScreeners |-> 1, preferredScreeners |-> 1,
            requiredSkills |-> {"react", "node", "sql", "aws", "docker", "go"},
            preferredSkills |-> {"graphql", "rust"}]
      [] OTHER ->
           [meritFit |-> JobRecord(2).meritFit, requiredScreeners |-> 0,
            preferredScreeners |-> 0, requiredSkills |-> {},
            preferredSkills |-> {}]

(* request bodies: no answers, one answer "yes", one answer that shares no  *)
(* token with any prompt; no answer names a skill                           *)
AnswerSets ==
    {[count |-> 0, yes |-> FALSE], [count |-> 1, yes |-> TRUE],
     [count |-> 1, yes |-> FALSE]}

(* answerMatchesPrompt, for prompts that hold a token of 3+ characters *)
AnswerMatchesPrompt(answers) == answers.count > 0 /\ answers.yes

Min2(a, b) == IF a < b THEN a ELSE b

Max2(a, b) == IF a > b THEN a ELSE b

(* a clampScore that rounds and does not bound *)
ClampScoreUnbounded(hundredths) == (hundredths + 50) \div 100

(* a clampScore whose upper bound is 40 *)
ClampScoreTo40(hundredths) == Max2(0, Min2(40, (hundredths + 50) \div 100))

(* clampScore of a value given in hundredths: Math.round, then 0..100 *)
ClampScore(hundredths) == Max2(0, Min2(100, (hundredths + 50) \div 100))

(* risk rules in which twelve recent applications raise no second rule *)
RiskRulesOneVelocity(user, job, answers, recentApplicationCount, priorFraudEventsForIp) ==
    <<[on |-> recentApplicationCount >= 6,
       flag |-> "high_application_velocity", add |-> 22],
      [on |-> user.accountAgeMinutes < 60, flag |-> "new_account", add |-> 18],
      [on |-> user.accountAgeMinutes * 100 < 1020,
       flag |-> "very_new_account", add |-> 18],
      [on |-> priorFraudEventsForIp > 0, flag |-> "ip_history_flagged",
       add |-> Min2(24, priorFraudEventsForIp * 6)],
      [on |-> user.isFlagged, flag |-> "user_previously_flagged", add |-> 26],
      [on |-> answers.count = 0 /\ job.requiredScreeners > 0,
       flag |-> "missing_required_answers", add |-> 10]>>

(* the risk flags pushed, in order, each with the score it adds *)
RiskRules(user, job, answers, recentApplicationCount, priorFraudEventsForIp) ==
    <<[on |-> recentApplicationCount >= 6,
       flag |-> "high_application_velocity", add |-> 22],
      [on |-> recentApplicationCount >= 12,
       flag |-> "extreme_application_velocity", add |-> 20],
      [on |-> user.accountAgeMinutes < 60, flag |-> "new_account", add |-> 18],
      [on |-> user.accountAgeMinutes * 100 < 1020,
       flag |-> "very_new_account", add |-> 18],
      [on |-> priorFraudEventsForIp > 0, flag |-> "ip_history_flagged",
       add |-> Min2(24, priorFraudEventsForIp * 6)],
      [on |-> user.isFlagged, flag |-> "user_previously_flagged", add |-> 26],
      [on |-> answers.count = 0 /\ job.requiredScreeners > 0,
       flag |-> "missing_required_answers", add |-> 10]>>

RECURSIVE SumAdds(_)
SumAdds(rules) ==
    IF rules = <<>> THEN 0
    ELSE (IF Head(rules).on THEN Head(rules).add ELSE 0) + SumAdds(Tail(rules))

RECURSIVE FlagsOf(_)
FlagsOf(rules) ==
    IF rules = <<>> THEN <<>>
    ELSE (IF Head(rules).on THEN <<Head(rules).flag>> ELSE <<>>)
             \o FlagsOf(Tail(rules))

(* evaluateApplication; ratios and weights are carried in hundredths *)
EvaluateApplication(job, user, answers, recentApplicationCount, priorFraudEventsForIp) ==
    LET requiredScore ==
            IF AnswerMatchesPrompt(answers) THEN job.requiredScreeners ELSE 0
        preferredScore ==
            IF AnswerMatchesPrompt(answers) THEN job.preferredScreeners ELSE 0
        missingSkills == job.requiredSkills \ user.profileSkills
        missingPreferredSkills == job.preferredSkills \ user.profileSkills
        requiredPassed ==
            job.requiredScreeners = 0 \/ requiredScore >= job.requiredScreeners
        rules == RiskRules(user, job, answers, recentApplicationCount,
                           priorFraudEventsForIp)
        riskScore == SumAdds(rules)
        requiredRatio28 ==
            IF job.requiredScreeners > 0
            THEN (2800 * requiredScore) \div job.requiredScreeners ELSE 2800
        preferredRatio12 ==
            IF job.preferredScreeners > 0
            THEN (1200 * preferredScore) \div job.preferredScreeners ELSE 720
        rawRank ==
            job.meritFit * 52 + requiredRatio28 + preferredRatio12
                + user.profileCompleteness * 12
                - Cardinality(missingSkills) * 700
                - Cardinality(missingPreferredSkills) * 200
                - riskScore * 24
    IN [requiredPassed |-> requiredPassed,
        requiredScore |-> requiredScore,
        preferredScore |-> preferredScore,
        autoRankScore |-> ClampScore(rawRank),
        riskScore |-> ClampScore(riskScore * 100),
        riskFlags |-> FlagsOf(rules),
        needsManualReview |-> riskScore >= 45 \/ ~requiredPassed,
        blockForAbuse |-> riskScore >= 72]

IdlePost ==
    [pc |-> "idle", jobId |-> NULL, answers |-> [count |-> 0, yes |-> FALSE],
     scoring |-> {}, response |-> {}]

(* rows of the applicant for job j *)
ApplicationsFor(rows, u, j) ==
    {i \in 1..Len(rows) : rows[i].userId = u /\ rows[i].jobId = j}

MinOf(S) == CHOOSE x \in S : \A y \in S : x <= y

(* prisma.application.count({userId, appliedAt: {gte: now - 15 min}}): the  *)
(* rows of the current hour                                                 *)
RecentApplicationCount(rows, u, now) ==
    Cardinality({i \in 1..Len(rows) : rows[i].userId = u /\ rows[i].appliedAt >= now})

(* prisma.fraudEvent.count for the caller's IP, last 24 h, manual_review or *)
(* block                                                                    *)
PriorFraudEventsForIp(events, now) ==
    Cardinality({i \in 1..Len(events) :
        /\ events[i].createdAt >= now - 24
        /\ events[i].decision \in {"manual_review", "block"}})

(* a decision that never blocks *)
FraudDecisionNoBlock(scoring) ==
    IF scoring.needsManualReview THEN "manual_review" ELSE "allow"

FraudDecision(scoring) ==
    IF scoring.blockForAbuse THEN "block"
    ELSE IF scoring.needsManualReview THEN "manual_review" ELSE "allow"

Severity(riskScore) ==
    IF riskScore >= 72 THEN "high" ELSE IF riskScore >= 45 THEN "medium" ELSE "low"

(* the row prisma.application.create inserts *)
NewApplication(id, u, j, scoring, now) ==
    [id |-> id, jobId |-> j, userId |-> u, status |-> "Applied",
     screenerRequiredPassed |-> scoring.requiredPassed,
     screenerRequiredScore |-> scoring.requiredScore,
     screenerPreferredScore |-> scoring.preferredScore,
     autoRankScore |-> scoring.autoRankScore,
     riskScore |-> scoring.riskScore,
     riskFlags |-> scoring.riskFlags,
     needsManualReview |-> scoring.needsManualReview,
     appliedAt |-> now]

(* applications the applicant sent to other jobs within the hour *)
RECURSIVE EarlierApplications(_, _)
EarlierApplications(n, now) ==
    IF n = 0 THEN <<>>
    ELSE Append(EarlierApplications(n - 1, now),
             NewApplication(n, Applicant, 10 + n,
                 [requiredPassed |-> TRUE, requiredScore |-> 0,
                  preferredScore |-> 0, autoRankScore |-> 60, riskScore |-> 0,
                  riskFlags |-> <<>>, needsManualReview |-> FALSE], now))

Candidates ==
    [isFlagged : BOOLEAN, accountAgeMinutes : {5, 30, 600},
     profileSkills : {{"react"}}, profileCompleteness : {70}]

InitApp ==
    /\ clock = 9
    /\ env = EnvConfigured /\ syncs = <<>> /\ rateLimits = <<>>
    /\ searchCfg = <<>> /\ lastDigestAt = <<>> /\ alerts = <<>>
    /\ logs = EmptyBag /\ run = <<>>
    /\ used = [runs |-> 0, ticks |-> 0, rejects |-> 0, marks |-> 0]
    /\ lastPreview = {} /\ accepted = EmptyBag /\ retryDue = NoRetry
    /\ schema \in [uniqueApplicantJob : BOOLEAN]
    /\ candidate \in Candidates
    /\ applications \in {EarlierApplications(0, clock), EarlierApplications(6, clock)}
    /\ fraudEvents = <<>>
    /\ post = [q \in PostIds |-> IdlePost]
    /\ interviews = <<>>
    /\ pipe = <<>>
    /\ pipeUsed = <<>>

appFrame == <<clock, processVars, deliveryVars, schema, candidate, interviews, pipe, pipeUsed>>

(* the request arrives: throttle, session, body and the job and user        *)
(* lookups all pass; requests are numbered in order of arrival              *)
PostStart(q, j, answers) ==
    /\ post[q].pc = "idle"
    /\ \A earlier \in 1..(q - 1) : post[earlier].pc # "idle"
    /\ post' = [post EXCEPT ![q] = [IdlePost EXCEPT !.pc = "find", !.jobId = j,
                                                    !.answers = answers]]
    /\ UNCHANGED <<appFrame, applications, fraudEvents>>

(* prisma.application.findFirst({userId, jobId}); an existing row is the    *)
(* response                                                                 *)
PostFindFirst(q) ==
    /\ post[q].pc = "find"
    /\ LET found == ApplicationsFor(applications, Applicant, post[q].jobId)
       IN post' = [post EXCEPT ![q] =
              IF found # {}
              THEN [@ EXCEPT !.pc = "done",
                             !.response = {[status |-> 200,
                                            body |-> {applications[MinOf(found)]}]}]
              ELSE [@ EXCEPT !.pc = "count"]]
    /\ UNCHANGED <<appFrame, applications, fraudEvents>>

(* the two counts, then evaluateApplication *)
PostScore(q) ==
    /\ post[q].pc = "count"
    /\ LET scoring == EvaluateApplication(JobScreening(post[q].jobId), candidate,
                          post[q].answers,
                          RecentApplicationCount(applications, Applicant, clock),
                          PriorFraudEventsForIp(fraudEvents, clock))
       IN post' = [post EXCEPT ![q] =
              [@ EXCEPT !.scoring = {scoring},
                        !.pc = IF scoring.riskFlags # <<>> THEN "fraud"
                               ELSE "create"]]
    /\ UNCHANGED <<appFrame, applications, fraudEvents>>

(* prisma.fraudEvent.create when a risk flag was raised; a blocked request  *)
(* ends here with 429                                                       *)
PostFraudEvent(q) ==
    /\ post[q].pc = "fraud"
    /\ \E scoring \in post[q].scoring :
        /\ fraudEvents' = Append(fraudEvents,
               [userId |-> Applicant, severity |-> Severity(scoring.riskScore),
                decision |-> FraudDecision(scoring), createdAt |-> clock])
        /\ post' = [post EXCEPT ![q] =
               IF scoring.blockForAbuse
               THEN [@ EXCEPT !.pc = "done",
                              !.response = {[status |-> 429, body |-> {}]}]
               ELSE [@ EXCEPT !.pc = "create"]]
    /\ UNCHANGED <<appFrame, applications>>

(* prisma.application.create: the insert fails when the database enforces   *)
(* one row per (userId, jobId) and a row is there; nothing catches that     *)
PostCreate(q) ==
    /\ post[q].pc = "create"
    /\ \E scoring \in post[q].scoring :
        LET record == NewApplication(Len(applications) + 1, Applicant,
                                     post[q].jobId, scoring, clock)
            clash == /\ schema.uniqueApplicantJob
                     /\ ApplicationsFor(applications, Applicant, post[q].jobId) # {}
        IN /\ applications' = IF clash THEN applications
                              ELSE Append(applications, record)
           /\ post' = [post EXCEPT ![q] =
                  [@ EXCEPT !.pc = "done",
                            !.response =
                                IF clash THEN {[status |-> 500, body |-> {}]}
                                ELSE {[status |-> 201, body |-> {record}]}]]
    /\ UNCHANGED <<appFrame, fraudEvents>>

(* submissions of the applicant whose steps interleave *)
NextApp ==
    \/ \E q \in PostIds, j \in AppJobIds, answers \in AnswerSets :
           PostStart(q, j, answers)
    \/ \E q \in PostIds : PostFindFirst(q)
    \/ \E q \in PostIds : PostScore(q)
    \/ \E q \in PostIds : PostFraudEvent(q)
    \/ \E q \in PostIds : PostCreate(q)

SpecApp == InitApp /\ [][NextApp]_vars

(* one submission over the range of scoring inputs: applicants of every     *)
(* account age, flagged or not, with an empty or a complete profile; recent *)
(* applications and fraud events from the caller's address on both sides of *)
(* every threshold                                                          *)
ScoreJobIds == {1, 2, 3, 4}

ScoreCandidates ==
    [isFlagged : BOOLEAN, accountAgeMinutes : {5, 10, 11, 30, 600},
     profileSkills : {{}, {"react"}}, profileCompleteness : {0, 100}]

RECURSIVE EarlierFraudEvents(_, _)
EarlierFraudEvents(n, now) ==
    IF n = 0 THEN <<>>
    ELSE Append(EarlierFraudEvents(n - 1, now),
             [userId |-> Applicant, severity |-> "medium",
              decision |-> "manual_review", createdAt |-> now])

InitScore ==
    /\ clock = 9
    /\ env = EnvConfigured /\ syncs = <<>> /\ rateLimits = <<>>
    /\ searchCfg = <<>> /\ lastDigestAt = <<>> /\ alerts = <<>>
    /\ logs = EmptyBag /\ run = <<>>
    /\ used = [runs |-> 0, ticks |-> 0, rejects |-> 0, marks |-> 0]
    /\ lastPreview = {} /\ accepted = EmptyBag /\ retryDue = NoRetry
    /\ schema = [uniqueApplicantJob |-> TRUE]
    /\ candidate \in ScoreCandidates
    /\ applications \in {EarlierApplications(n, clock) : n \in {0, 5, 6, 12, 13}}
    /\ fraudEvents \in {EarlierFraudEvents(n, clock) : n \in {0, 1, 4, 5}}
    /\ post = [q \in PostIds |-> IdlePost]
    /\ interviews = <<>>
    /\ pipe = <<>>
    /\ pipeUsed = <<>>

NextScore ==
    \/ \E j \in ScoreJobIds, answers \in AnswerSets : PostStart(1, j, answers)
    \/ PostFindFirst(1)
    \/ PostScore(1)
    \/ PostFraudEvent(1)
    \/ PostCreate(1)

SpecScore == InitScore /\ [][NextScore]_vars

----------------------------------------------------------------------------
(* Rate limiting: consumeRateLimit over one namespace of the in-memory      *)
(* store. Date.now() is counted in seconds; the limit and the window of the *)
(* route are scaled down                                                    *)

MaxConsumes == 4      \* consumeRateLimit calls
MaxLimitTicks == 3    \* seconds that pass
LimitPerWindow == 2   \* input.limit of the route
WindowSeconds == 2    \* input.windowMs of the route, in seconds

(* input.identifier as the routes pass it; the empty one becomes "unknown" *)
Identifiers == {"a", "", "unknown"}

StoreKeys == {"a", "unknown"}

NoBucket == {}

(* cleanupExpired: in a store of 500 identifiers or more the expired        *)
(* buckets are deleted                                                      *)
CleanupExpired(store, now, crowded) ==
    IF ~crowded THEN store
    ELSE [key \in StoreKeys |-> {b \in store[key] : ~(b.resetAt <= now)}]

(* a limiter that refuses only above the limit *)
ConsumeBucketAboveLimit(existing, limit, window, now) ==
    IF existing = NoBucket \/ \E b \in existing : b.resetAt <= now
    THEN [bucket |-> {[count |-> 1, resetAt |-> now + window]}, allowed |-> TRUE,
          remaining |-> Max2(0, limit - 1), resetAt |-> now + window]
    ELSE LET b == CHOOSE x \in existing : TRUE
         IN IF b.count > limit
            THEN [bucket |-> existing, allowed |-> FALSE, remaining |-> 0,
                  resetAt |-> b.resetAt]
            ELSE [bucket |-> {[b EXCEPT !.count = @ + 1]}, allowed |-> TRUE,
                  remaining |-> Max2(0, limit - (b.count + 1)),
                  resetAt |-> b.resetAt]

(* consumeRateLimit on the bucket of the identifier: the bucket afterwards  *)
(* and the result returned                                                  *)
ConsumeBucket(existing, limit, window, now) ==
    IF existing = NoBucket \/ \E b \in existing : b.resetAt <= now
    THEN [bucket |-> {[count |-> 1, resetAt |-> now + window]}, allowed |-> TRUE,
          remaining |-> Max2(0, limit - 1), resetAt |-> now + window]
    ELSE LET b == CHOOSE x \in existing : TRUE
         IN IF b.count >= limit
            THEN [bucket |-> existing, allowed |-> FALSE, remaining |-> 0,
                  resetAt |-> b.resetAt]
            ELSE [bucket |-> {[b EXCEPT !.count = @ + 1]}, allowed |-> TRUE,
                  remaining |-> Max2(0, limit - (b.count + 1)),
                  resetAt |-> b.resetAt]

InitLimit ==
    /\ HiringIdle
    /\ env = EnvConfigured /\ syncs = <<>>
    /\ rateLimits = [now |-> 1, store |-> [key \in StoreKeys |-> NoBucket],
                     results |-> <<>>, consumes |-> 0, ticks |-> 0]
    /\ clock \in StartHours
    /\ searchCfg = <<>> /\ lastDigestAt = <<>> /\ alerts = <<>>
    /\ logs = EmptyBag /\ run = <<>>
    /\ used = [runs |-> 0, ticks |-> 0, rejects |-> 0, marks |-> 0]
    /\ lastPreview = {} /\ accepted = EmptyBag /\ retryDue = NoRetry

(* a request reaches a throttled route: consumeRateLimit runs to its return *)
ConsumeRateLimit(identifier, crowded) ==
    /\ rateLimits.consumes < MaxConsumes
    /\ LET limit == Max2(1, LimitPerWindow)
           window == Max2(1, WindowSeconds)
           key == IF identifier = "" THEN "unknown" ELSE identifier
           now == rateLimits.now
           store == CleanupExpired(rateLimits.store, now, crowded)
           out == ConsumeBucket(store[key], limit, window, now)
       IN rateLimits' =
              [rateLimits EXCEPT
                  !.consumes = @ + 1,
                  !.store = [store EXCEPT ![key] = out.bucket],
                  !.results = Append(@, [identifier |-> key, at |-> now,
                                         limit |-> limit, allowed |-> out.allowed,
                                         remaining |-> out.remaining,
                                         resetAt |-> out.resetAt])]
    /\ UNCHANGED <<clock, env, syncs, hiringVars, deliveryVars>>

(* a second passes *)
LimitTick ==
    /\ rateLimits.ticks < MaxLimitTicks
    /\ rateLimits' = [rateLimits EXCEPT !.ticks = @ + 1, !.now = @ + 1]
    /\ UNCHANGED <<clock, env, syncs, hiringVars, deliveryVars>>

NextLimit ==
    \/ \E identifier \in Identifiers, crowded \in BOOLEAN :
           ConsumeRateLimit(identifier, crowded)
    \/ LimitTick

SpecLimit == InitLimit /\ [][NextLimit]_vars

----------------------------------------------------------------------------
(* Pipeline automation: lib/pipeline-automation and POST /api/interviews *)

MaxPipeRuns == 3        \* runPipelineAutomation invocations
MaxInterviewPosts == 1  \* POST /api/interviews requests

PipeRuns == {1, 2}
ADMIN == 0                    \* scope "admin": every job
Employers == {1, 2}
PipeJobIds == {1, 2, 3, 4, 5}
Owners == {"ana", "ben", "cy"}
ApplyLimits == {1, 3}
RebalanceLimits == {2}
PostedOwners == {"ben", "cy"}    \* owners of the interviews posted meanwhile
PipelineStart == 1000         \* the hour the pipeline behaviours start at

(* Job.meritFit and Job.createdById of the jobs with applications *)
JobMeritFit(j) ==
    IF j \in JobIds THEN JobRecord(j).meritFit
    ELSE IF j = 4 THEN 85 ELSE IF j = 5 THEN 72 ELSE 65

JobCreatedBy(j) == IF j = 3 THEN 2 ELSE 1

ValidStatuses == {"Applied", "Interview", "Offer", "Rejected"}

ToAppStatus(value) == IF value \in ValidStatuses THEN value ELSE "Applied"

PriorityRank(priority) ==
    IF priority = "high" THEN 3 ELSE IF priority = "medium" THEN 2 ELSE 1

NoRecommendation == {}

(* a deriveRecommendation that sends an offer back to interview *)
DeriveRecommendationReopens(currentStatus, appliedAt, meritFit, now) ==
    LET hours == now - appliedAt
        merit == meritFit
    IN IF currentStatus = "Applied" /\ merit >= 90
       THEN {[recommendedStatus |-> "Interview", priority |-> "high",
              confidence |-> 92]}
       ELSE IF currentStatus = "Applied" /\ merit >= 82 /\ hours >= 4 * 24
       THEN {[recommendedStatus |-> "Interview", priority |-> "medium",
              confidence |-> 81]}
       ELSE IF currentStatus = "Applied" /\ merit < 70 /\ hours >= 12 * 24
       THEN {[recommendedStatus |-> "Rejected", priority |-> "medium",
              confidence |-> 76]}
       ELSE IF currentStatus = "Interview" /\ merit >= 88 /\ hours >= 10 * 24
       THEN {[recommendedStatus |-> "Offer", priority |-> "high",
              confidence |-> 87]}
       ELSE IF currentStatus = "Interview" /\ merit < 75 /\ hours >= 21 * 24
       THEN {[recommendedStatus |-> "Rejected", priority |-> "low",
              confidence |-> 68]}
       ELSE IF currentStatus = "Offer"
       THEN {[recommendedStatus |-> "Interview", priority |-> "low",
              confidence |-> 50]}
       ELSE NoRecommendation

(* a deriveRecommendation that asks for pipeline age before top merit *)
DeriveRecommendationAgeFirst(currentStatus, appliedAt, meritFit, now) ==
    LET hours == now - appliedAt
        merit == meritFit
    IN IF currentStatus = "Applied" /\ merit >= 82 /\ hours >= 4 * 24
       THEN {[recommendedStatus |-> "Interview", priority |-> "medium",
              confidence |-> 81]}
       ELSE IF currentStatus = "Applied" /\ merit >= 90
       THEN {[recommendedStatus |-> "Interview", priority |-> "high",
              confidence |-> 92]}
       ELSE IF currentStatus = "Applied" /\ merit < 70 /\ hours >= 12 * 24
       THEN {[recommendedStatus |-> "Rejected", priority |-> "medium",
              confidence |-> 76]}
       ELSE IF currentStatus = "Interview" /\ merit >= 88 /\ hours >= 10 * 24
       THEN {[recommendedStatus |-> "Offer", priority |-> "high",
              confidence |-> 87]}
       ELSE IF currentStatus = "Interview" /\ merit < 75 /\ hours >= 21 * 24
       THEN {[recommendedStatus |-> "Rejected", priority |-> "low",
              confidence |-> 68]}
       ELSE NoRecommendation

(* deriveRecommendation: the recommendation, or none; ages in hours,        *)
(* confidence in hundredths                                                 *)
DeriveRecommendation(currentStatus, appliedAt, meritFit, now) ==
    LET hours == now - appliedAt
        merit == meritFit
    IN IF currentStatus = "Applied" /\ merit >= 90
       THEN {[recommendedStatus |-> "Interview", priority |-> "high",
              confidence |-> 92]}
       ELSE IF currentStatus = "Applied" /\ merit >= 82 /\ hours >= 4 * 24
       THEN {[recommendedStatus |-> "Interview", priority |-> "medium",
              confidence |-> 81]}
       ELSE IF currentStatus = "Applied" /\ merit < 70 /\ hours >= 12 * 24
       THEN {[recommendedStatus |-> "Rejected", priority |-> "medium",
              confidence |-> 76]}
       ELSE IF currentStatus = "Interview" /\ merit >= 88 /\ hours >= 10 * 24
       THEN {[recommendedStatus |-> "Offer", priority |-> "high",
              confidence |-> 87]}
       ELSE IF currentStatus = "Interview" /\ merit < 75 /\ hours >= 21 * 24
       THEN {[recommendedStatus |-> "Rejected", priority |-> "low",
              confidence |-> 68]}
       ELSE NoRecommendation

(* the positions of a sequence ordered by ascending key, ties in sequence   *)
(* order: what Array.prototype.sort and orderBy do with these comparators   *)
RECURSIVE SortIdx(_, _)
SortIdx(S, keys) ==
    IF S = {} THEN <<>>
    ELSE LET m == CHOOSE i \in S :
                     \A j \in S : keys[i] < keys[j] \/ (keys[i] = keys[j] /\ i <= j)
         IN <<m>> \o SortIdx(S \ {m}, keys)

StableSortBy(seq, keys) ==
    LET order == SortIdx(1..Len(seq), keys)
    IN [k \in 1..Len(seq) |-> seq[order[k]]]

(* the recommendations of a snapshot, before sorting *)
RECURSIVE Recommend(_, _)
Recommend(apps, now) ==
    IF apps = <<>> THEN <<>>
    ELSE LET application == Head(apps)
             currentStatus == ToAppStatus(application.status)
             found == DeriveRecommendation(currentStatus, application.appliedAt,
                                           JobMeritFit(application.jobId), now)
             kept == {r \in found : r.recommendedStatus # currentStatus}
         IN (IF kept = {} THEN <<>>
             ELSE LET r == CHOOSE x \in kept : TRUE
                  IN <<[applicationId |-> application.id,
                        currentStatus |-> currentStatus,
                        recommendedStatus |-> r.recommendedStatus,
                        priority |-> r.priority,
                        confidence |-> r.confidence]>>)
            \o Recommend(Tail(apps), now)

(* snapshot.recommendations *)
Recommendations(rows, scope, userId, now) ==
    LET inScope == SelectSeq(rows,
                       LAMBDA a : a.jobId \in PipeJobIds
                                  /\ (scope = "admin" \/ JobCreatedBy(a.jobId) = userId))
        byAge == StableSortBy(inScope, [k \in 1..Len(inScope) |-> inScope[k].appliedAt])
        found == Recommend(byAge, now)
    IN StableSortBy(found,
           [k \in 1..Len(found) |->
               0 - (PriorityRank(found[k].priority) * 1000 + found[k].confidence)])

(* prisma.interview.findMany({time: {gte: now}}, orderBy time asc) *)
UpcomingInterviews(rows, now) ==
    LET upcoming == SelectSeq(rows, LAMBDA i : i.time >= now)
    IN StableSortBy(upcoming, [k \in 1..Len(upcoming) |-> upcoming[k].time])

(* owners in order of first appearance: the entries of interviewsByOwner *)
RECURSIVE OwnersInOrder(_, _)
OwnersInOrder(upcoming, seen) ==
    IF upcoming = <<>> THEN <<>>
    ELSE IF Head(upcoming).owner \in seen THEN OwnersInOrder(Tail(upcoming), seen)
    ELSE <<Head(upcoming).owner>>
             \o OwnersInOrder(Tail(upcoming), seen \cup {Head(upcoming).owner})

Scheduled(upcoming, owner) ==
    Len(SelectSeq(upcoming, LAMBDA i : i.owner = owner))

(* loadStats: one entry per owner with its load level, busiest first *)
LoadStats(upcoming) ==
    LET owners == OwnersInOrder(upcoming, {})
        n == Len(owners)
        total == Len(upcoming)
        entries ==
            [k \in 1..n |->
                LET scheduled == Scheduled(upcoming, owners[k])
                IN [owner |-> owners[k], scheduled |-> scheduled,
                    loadLevel |->
                        IF scheduled * n >= total + n THEN "high"
                        ELSE IF scheduled * n <= total - n THEN "low"
                        ELSE "balanced"]]
    IN StableSortBy(entries, [k \in 1..n |-> 0 - entries[k].scheduled])

OwnersAt(stats, level) ==
    LET picked == SelectSeq(stats, LAMBDA e : e.loadLevel = level)
    IN [k \in 1..Len(picked) |-> picked[k].owner]

(* rebalancing loops that stop an owner only when the gap is gone *)
RECURSIVE RebalanceToZero(_, _, _, _)
RebalanceToZero(overloaded, pools, underloaded, virtualCounts) ==
    IF overloaded = <<>> \/ underloaded = <<>> THEN <<>>
    ELSE LET overloadedOwner == Head(overloaded)
             pool == pools[overloadedOwner]
             sorted == StableSortBy(underloaded,
                           [k \in 1..Len(underloaded) |-> virtualCounts[underloaded[k]]])
             targetOwner == sorted[1]
             sourceCount == virtualCounts[overloadedOwner]
             targetCount == virtualCounts[targetOwner]
         IN IF pool = <<>>
            THEN RebalanceToZero(Tail(overloaded), pools, underloaded, virtualCounts)
            ELSE IF sourceCount - targetCount <= 0
            THEN RebalanceToZero(Tail(overloaded), pools, sorted, virtualCounts)
            ELSE <<[interviewId |-> Head(pool).id,
                    currentOwner |-> overloadedOwner,
                    suggestedOwner |-> targetOwner]>>
                 \o RebalanceToZero(overloaded,
                        [pools EXCEPT ![overloadedOwner] = Tail(pool)], sorted,
                        [virtualCounts EXCEPT ![overloadedOwner] = sourceCount - 1,
                                              ![targetOwner] = targetCount + 1])

(* rebalancing loops that leave an owner after its first move *)
RECURSIVE RebalanceOnce(_, _, _, _)
RebalanceOnce(overloaded, pools, underloaded, virtualCounts) ==
    IF overloaded = <<>> \/ underloaded = <<>> THEN <<>>
    ELSE LET overloadedOwner == Head(overloaded)
             pool == pools[overloadedOwner]
             sorted == StableSortBy(underloaded,
                           [k \in 1..Len(underloaded) |-> virtualCounts[underloaded[k]]])
             targetOwner == sorted[1]
             sourceCount == virtualCounts[overloadedOwner]
             targetCount == virtualCounts[targetOwner]
         IN IF pool = <<>>
            THEN RebalanceOnce(Tail(overloaded), pools, underloaded, virtualCounts)
            ELSE IF sourceCount - targetCount <= 1
            THEN RebalanceOnce(Tail(overloaded), pools, sorted, virtualCounts)
            ELSE <<[interviewId |-> Head(pool).id,
                    currentOwner |-> overloadedOwner,
                    suggestedOwner |-> targetOwner]>>
                 \o RebalanceOnce(Tail(overloaded),
                        [pools EXCEPT ![overloadedOwner] = Tail(pool)], sorted,
                        [virtualCounts EXCEPT ![overloadedOwner] = sourceCount - 1,
                                              ![targetOwner] = targetCount + 1])

(* the rebalancing loops: for each overloaded owner, hand its interviews,   *)
(* earliest first, to the least loaded underloaded owner while the gap      *)
(* exceeds one                                                              *)
RECURSIVE Rebalance(_, _, _, _)
Rebalance(overloaded, pools, underloaded, virtualCounts) ==
    IF overloaded = <<>> \/ underloaded = <<>> THEN <<>>
    ELSE LET overloadedOwner == Head(overloaded)
             pool == pools[overloadedOwner]
             sorted == StableSortBy(underloaded,
                           [k \in 1..Len(underloaded) |-> virtualCounts[underloaded[k]]])
             targetOwner == sorted[1]
             sourceCount == virtualCounts[overloadedOwner]
             targetCount == virtualCounts[targetOwner]
         IN IF pool = <<>>
            THEN Rebalance(Tail(overloaded), pools, underloaded, virtualCounts)
            ELSE IF sourceCount - targetCount <= 1
            THEN Rebalance(Tail(overloaded), pools, sorted, virtualCounts)
            ELSE <<[interviewId |-> Head(pool).id,
                    currentOwner |-> overloadedOwner,
                    suggestedOwner |-> targetOwner]>>
                 \o Rebalance(overloaded,
                        [pools EXCEPT ![overloadedOwner] = Tail(pool)], sorted,
                        [virtualCounts EXCEPT ![overloadedOwner] = sourceCount - 1,
                                              ![targetOwner] = targetCount + 1])

(* snapshot.rebalanceSuggestions *)
RebalanceSuggestions(upcoming) ==
    LET stats == LoadStats(upcoming)
        overloadedOwners == OwnersAt(stats, "high")
        underloadedOwners == OwnersAt(stats, "low")
    IN Rebalance(overloadedOwners,
           [o \in {overloadedOwners[k] : k \in 1..Len(overloadedOwners)} |->
               SelectSeq(upcoming, LAMBDA i : i.owner = o)],
           underloadedOwners,
           [o \in {stats[k].owner : k \in 1..Len(stats)} |-> Scheduled(upcoming, o)])

(* array.slice(0, limit) *)
Slice(seq, limit) == SubSeq(seq, 1, Min2(limit, Len(seq)))

(* a limit as the caller passes it: a finite number, carried in tenths, or  *)
(* a value Number.isFinite rejects (undefined, NaN, an infinity)            *)
Finite(n) == [finite |-> TRUE, tenths |-> n * 10]

NotFinite == [finite |-> FALSE, tenths |-> 0]

(* a limit without a default: nothing when the number is not finite *)
NormalizeLimitNoDefault(limit, default) ==
    IF limit.finite THEN Max2(0, limit.tenths \div 10) ELSE 0

(* Number.isFinite(limit) ? Math.max(0, Math.floor(limit)) : default *)
NormalizeLimit(limit, default) ==
    IF limit.finite THEN Max2(0, limit.tenths \div 10) ELSE default

(* an updateMany whose where clause names the id only *)
UpdateManyStatusById(rows, id, status, newStatus) ==
    IF id \in 1..Len(rows)
    THEN [rows |-> [rows EXCEPT ![id].status = newStatus], count |-> 1]
    ELSE [rows |-> rows, count |-> 0]

(* prisma.application.updateMany({where: {id, status}, data: {status}}):    *)
(* the rows afterwards and the number of rows written                       *)
UpdateManyStatus(rows, id, status, newStatus) ==
    IF id \in 1..Len(rows) /\ rows[id].status = status
    THEN [rows |-> [rows EXCEPT ![id].status = newStatus], count |-> 1]
    ELSE [rows |-> rows, count |-> 0]

(* prisma.interview.updateMany({where: {id, owner}, data: {owner}}) *)
UpdateManyOwner(rows, id, owner, newOwner) ==
    IF id \in 1..Len(rows) /\ rows[id].owner = owner
    THEN [rows |-> [rows EXCEPT ![id].owner = newOwner], count |-> 1]
    ELSE [rows |-> rows, count |-> 0]

IdlePipe ==
    [pc |-> "idle", recommendationTargets |-> <<>>, rebalanceTargets |-> <<>>,
     recommendationsConsidered |-> 0, rebalanceConsidered |-> 0,
     appliedStatusUpdates |-> 0, movedInterviews |-> 0,
     staleStatus |-> {}, staleOwner |-> {}, input |-> {}]

(* an application as the scoring of a plain submission stores it *)
SeedApplication(id, j, status, appliedAt) ==
    [NewApplication(id, Applicant, j,
         [requiredPassed |-> TRUE, requiredScore |-> 0, preferredScore |-> 0,
          autoRankScore |-> 60, riskScore |-> 0, riskFlags |-> <<>>,
          needsManualReview |-> FALSE], appliedAt)
     EXCEPT !.status = status]

SeedInterview(id, owner, time) == [id |-> id, owner |-> owner, time |-> time]

(* four applications of different age and fit, and interviews held by two   *)
(* owners, one of them with three times the load of the other               *)
InitPipeline ==
    /\ clock = PipelineStart
    /\ env = EnvConfigured /\ syncs = <<>> /\ rateLimits = <<>>
    /\ searchCfg = <<>> /\ lastDigestAt = <<>> /\ alerts = <<>>
    /\ logs = EmptyBag /\ run = <<>>
    /\ used = [runs |-> 0, ticks |-> 0, rejects |-> 0, marks |-> 0]
    /\ lastPreview = {} /\ accepted = EmptyBag /\ retryDue = NoRetry
    /\ schema = [uniqueApplicantJob |-> TRUE]
    /\ candidate = <<>>
    /\ fraudEvents = <<>>
    /\ post = <<>>
    /\ applications =
           <<SeedApplication(1, 1, "Applied", clock - 12 * 24),
             SeedApplication(2, 3, "Applied", clock - 13 * 24),
             SeedApplication(3, 2, "Applied", clock - 5 * 24),
             SeedApplication(4, 3, "Interview", clock - 22 * 24)>>
    /\ interviews =
           <<SeedInterview(1, "ana", clock + 1), SeedInterview(2, "ana", clock + 2),
             SeedInterview(3, "ana", clock + 3), SeedInterview(4, "ben", clock + 4)>>
    /\ pipe = [p \in PipeRuns |-> IdlePipe]
    /\ pipeUsed = [runs |-> 0, interviewPosts |-> 0,
                   statusWrites |-> [i \in 1..4 |-> 0]]

pipeFrame == <<clock, processVars, deliveryVars, schema, candidate, fraudEvents, post>>

PcAfter(rec) ==
    IF rec.recommendationTargets # <<>> THEN "apply"
    ELSE IF rec.rebalanceTargets # <<>> THEN "move" ELSE "done"

(* runPipelineAutomation up to the slices: the snapshot is read and the     *)
(* targets are cut to the limits                                            *)
PipeStart(p, scope, userId, applyLimit, rebalanceLimit) ==
    /\ pipe[p].pc = "idle"
    /\ pipeUsed.runs < MaxPipeRuns
    /\ pipeUsed' = [pipeUsed EXCEPT !.runs = @ + 1]
    /\ LET recommendationTargets ==
               Slice(Recommendations(applications, scope, userId, clock),
                     NormalizeLimit(applyLimit, 3))
           rebalanceTargets ==
               Slice(RebalanceSuggestions(UpcomingInterviews(interviews, clock)),
                     NormalizeLimit(rebalanceLimit, 2))
           rec == [IdlePipe EXCEPT
                      !.input = {[scope |-> scope, userId |-> userId,
                                  applyLimit |-> applyLimit,
                                  rebalanceLimit |-> rebalanceLimit]},
                      !.recommendationTargets = recommendationTargets,
                      !.rebalanceTargets = rebalanceTargets,
                      !.recommendationsConsidered = Len(recommendationTargets),
                      !.rebalanceConsidered = Len(rebalanceTargets)]
       IN pipe' = [pipe EXCEPT ![p] = [rec EXCEPT !.pc = PcAfter(rec)]]
    /\ UNCHANGED <<pipeFrame, applications, interviews>>

(* the first loop: one conditional updateMany per recommendation *)
PipeApplyStatus(p) ==
    /\ pipe[p].pc = "apply"
    /\ LET recommendation == Head(pipe[p].recommendationTargets)
           result == UpdateManyStatus(applications, recommendation.applicationId,
                         recommendation.currentStatus,
                         recommendation.recommendedStatus)
           rec == [pipe[p] EXCEPT
                      !.recommendationTargets = Tail(@),
                      !.appliedStatusUpdates = @ + result.count,
                      !.staleStatus = IF result.count = 0
                                      THEN @ \cup {recommendation} ELSE @]
       IN /\ applications' = result.rows
          /\ pipe' = [pipe EXCEPT ![p] = [rec EXCEPT !.pc = PcAfter(rec)]]
          /\ pipeUsed' =
                 IF result.count = 0 THEN pipeUsed
                 ELSE [pipeUsed EXCEPT
                          !.statusWrites[recommendation.applicationId] = @ + 1]
    /\ UNCHANGED <<pipeFrame, interviews>>

(* the second loop: one conditional updateMany per suggestion *)
PipeMoveInterview(p) ==
    /\ pipe[p].pc = "move"
    /\ LET suggestion == Head(pipe[p].rebalanceTargets)
           result == UpdateManyOwner(interviews, suggestion.interviewId,
                         suggestion.currentOwner, suggestion.suggestedOwner)
           rec == [pipe[p] EXCEPT
                      !.rebalanceTargets = Tail(@),
                      !.movedInterviews = @ + result.count,
                      !.staleOwner = IF result.count = 0
                                     THEN @ \cup {suggestion} ELSE @]
       IN /\ interviews' = result.rows
          /\ pipe' = [pipe EXCEPT ![p] = [rec EXCEPT !.pc = PcAfter(rec)]]
    /\ UNCHANGED <<pipeFrame, applications, pipeUsed>>

(* the run result is returned *)
PipeReturn(p) ==
    /\ pipe[p].pc = "done"
    /\ pipe' = [pipe EXCEPT ![p] = IdlePipe]
    /\ UNCHANGED <<pipeFrame, applications, interviews, pipeUsed>>

(* POST /api/interviews: one more upcoming interview *)
CreateInterview(owner) ==
    /\ pipeUsed.interviewPosts < MaxInterviewPosts
    /\ pipeUsed' = [pipeUsed EXCEPT !.interviewPosts = @ + 1]
    /\ interviews' = Append(interviews,
           SeedInterview(Len(interviews) + 1, owner, clock + Len(interviews) + 1))
    /\ UNCHANGED <<pipeFrame, applications, pipe>>

(* pipeline runs of employers and the admin whose steps interleave *)
NextPipeline ==
    \/ \E p \in PipeRuns, userId \in Employers, applyLimit \in ApplyLimits,
          rebalanceLimit \in RebalanceLimits :
           PipeStart(p, "employer", userId, Finite(applyLimit),
                     Finite(rebalanceLimit))
    \/ \E p \in PipeRuns, applyLimit \in ApplyLimits,
          rebalanceLimit \in RebalanceLimits :
           PipeStart(p, "admin", ADMIN, Finite(applyLimit), Finite(rebalanceLimit))
    \/ \E p \in PipeRuns : PipeApplyStatus(p)
    \/ \E p \in PipeRuns : PipeMoveInterview(p)
    \/ \E p \in PipeRuns : PipeReturn(p)
    \/ \E owner \in PostedOwners : CreateInterview(owner)

SpecPipeline == InitPipeline /\ [][NextPipeline]_vars

(* Stage recommendations over the range of their inputs: an application in  *)
(* Applied and one in Interview for a job of every merit and at every age   *)
(* in days the rules name, one more that is fresh, stale or settled, a      *)
(* stale one of low merit, and runs, one after the other, with every kind   *)
(* of applyLimit                                                            *)
AppliedAges == {0, 4, 12}

InterviewAges == {0, 10, 21}

StageLimits ==
    {NotFinite, Finite(0 - 1), Finite(0), Finite(1),
     [finite |-> TRUE, tenths |-> 27], Finite(5)}

InitStage ==
    /\ clock = PipelineStart
    /\ env = EnvConfigured /\ syncs = <<>> /\ rateLimits = <<>>
    /\ searchCfg = <<>> /\ lastDigestAt = <<>> /\ alerts = <<>>
    /\ logs = EmptyBag /\ run = <<>>
    /\ used = [runs |-> 0, ticks |-> 0, rejects |-> 0, marks |-> 0]
    /\ lastPreview = {} /\ accepted = EmptyBag /\ retryDue = NoRetry
    /\ schema = [uniqueApplicantJob |-> TRUE]
    /\ candidate = <<>>
    /\ fraudEvents = <<>>
    /\ post = <<>>
    /\ \E j1 \in PipeJobIds, d1 \in AppliedAges, j2 \in PipeJobIds,
          d2 \in InterviewAges,
          third \in {SeedApplication(3, 4, "Applied", clock - 4 * 24),
                     SeedApplication(3, 5, "Interview", clock - 21 * 24),
                     SeedApplication(3, 1, "Offer", clock - 21 * 24),
                     SeedApplication(3, 3, "Rejected", clock - 21 * 24)} :
          applications =
              <<SeedApplication(1, j1, "Applied", clock - d1 * 24),
                SeedApplication(2, j2, "Interview", clock - d2 * 24), third,
                SeedApplication(4, 3, "Applied", clock - 12 * 24)>>
    /\ interviews = <<>>
    /\ pipe = [p \in PipeRuns |-> IdlePipe]
    /\ pipeUsed = [runs |-> 0, interviewPosts |-> 0,
                   statusWrites |-> [i \in 1..4 |-> 0]]

NextStage ==
    \/ \E applyLimit \in StageLimits :
           PipeStart(1, "admin", ADMIN, applyLimit, NotFinite)
    \/ \E applyLimit \in StageLimits :
           PipeStart(1, "employer", 1, applyLimit, NotFinite)
    \/ PipeApplyStatus(1)
    \/ PipeReturn(1)

SpecStage == InitStage /\ [][NextStage]_vars

(* Rebalancing over the range of interview loads: up to five upcoming       *)
(* interviews of one owner and up to two of each of two others, listed      *)
(* busiest owner first or last, and runs with every kind of rebalanceLimit  *)
RECURSIVE Block(_, _, _)
Block(owner, n, seq) ==
    IF n = 0 THEN seq
    ELSE Block(owner, n - 1,
             Append(seq, SeedInterview(Len(seq) + 1, owner,
                                       PipelineStart + Len(seq) + 1)))

InterviewsWith(ana, ben, cy, busiestFirst) ==
    IF busiestFirst
    THEN Block("cy", cy, Block("ben", ben, Block("ana", ana, <<>>)))
    ELSE Block("ana", ana, Block("ben", ben, Block("cy", cy, <<>>)))

RebalanceLimitInputs == {NotFinite, Finite(0 - 1), Finite(1), Finite(4)}

InitRebalance ==
    /\ clock = PipelineStart
    /\ env = EnvConfigured /\ syncs = <<>> /\ rateLimits = <<>>
    /\ searchCfg = <<>> /\ lastDigestAt = <<>> /\ alerts = <<>>
    /\ logs = EmptyBag /\ run = <<>>
    /\ used = [runs |-> 0, ticks |-> 0, rejects |-> 0, marks |-> 0]
    /\ lastPreview = {} /\ accepted = EmptyBag /\ retryDue = NoRetry
    /\ schema = [uniqueApplicantJob |-> TRUE]
    /\ candidate = <<>>
    /\ fraudEvents = <<>>
    /\ post = <<>>
    /\ applications = <<>>
    /\ \E ana \in 0..5, ben \in 0..2, cy \in 0..2, busiestFirst \in BOOLEAN :
          interviews = InterviewsWith(ana, ben, cy, busiestFirst)
    /\ pipe = [p \in PipeRuns |-> IdlePipe]
    /\ pipeUsed = [runs |-> 0, interviewPosts |-> 0,
                   statusWrites |-> [i \in 1..4 |-> 0]]

NextRebalance ==
    \/ \E rebalanceLimit \in RebalanceLimitInputs :
           PipeStart(1, "admin", ADMIN, NotFinite, rebalanceLimit)
    \/ PipeMoveInterview(1)
    \/ PipeReturn(1)

SpecRebalance == InitRebalance /\ [][NextRebalance]_vars

----------------------------------------------------------------------------
(* Properties of alert delivery *)

ProviderChannels == {"email", "push"}

SentAt(row, channel) ==
    CASE channel = "email" -> row.emailSentAt
      [] channel = "in_app" -> row.inAppSentAt
      [] OTHER -> row.pushSentAt

PendingNow ==
    [email |-> PendingEmail, inApp |-> PendingInApp, push |-> PendingPush]

ChannelKey(channel) ==
    CASE channel = "email" -> "email"
      [] channel = "in_app" -> "inApp"
      [] OTHER -> "push"

(* C1: an alert's emailSentAt / pushSentAt is set only if the provider      *)
(* accepted a message covering that alert on that channel, and at the end   *)
(* of a run every alert covered by an attempt the provider rejected in that *)
(* run still has a null timestamp on that channel.                          *)
C1_SentOnlyAfterAccepted ==
    /\ \A i \in 1..Len(alerts), ch \in ProviderChannels :
           SentAt(alerts[i], ch) # NULL => BagIn(<<i, ch>>, accepted)
    /\ run[1].pc = "done" =>
           \A p \in run[1].rejected :
               p[2] \in ProviderChannels => SentAt(alerts[p[1]], p[2]) = NULL

(* a finished run in which one provider call was rejected and another was   *)
(* accepted                                                                 *)
C1_Witness ==
    /\ run[1].pc = "done"
    /\ \E p \in run[1].rejected, q \in run[1].won :
           /\ p[2] \in ProviderChannels /\ q[2] \in ProviderChannels
           /\ SentAt(alerts[p[1]], p[2]) = NULL
           /\ SentAt(alerts[q[1]], q[2]) # NULL

(* C2: every <<alert, channel>> the provider rejected in the previous run   *)
(* is attempted again by the run that follows it with no state change in    *)
(* between, whatever the cadence of the owning search.                      *)
C2_RejectedRetriedByNextRun ==
    run[1].pc = "done" => run[1].obligation \subseteq run[1].attempted

(* C3: each of an alert's three sent timestamps changes only from null to   *)
(* a set value, and no alert row disappears, across runs, previews, syncs   *)
(* and mark-read requests.                                                  *)
C3_SentTimestampsOnlySet ==
    [][/\ Len(alerts') >= Len(alerts)
       /\ \A i \in 1..Len(alerts), ch \in {"email", "in_app", "push"} :
              SentAt(alerts'[i], ch) # SentAt(alerts[i], ch) =>
                  SentAt(alerts[i], ch) = NULL /\ SentAt(alerts'[i], ch) # NULL]_vars

(* an alert with all three timestamps set that was then marked read, in a   *)
(* store both users have synced into                                        *)
C3_Witness ==
    /\ Len(alerts) = 3
    /\ lastPreview # {}
    /\ \E i \in 1..Len(alerts) :
           /\ alerts[i].emailSentAt # NULL /\ alerts[i].inAppSentAt # NULL
           /\ alerts[i].pushSentAt # NULL
           /\ alerts[i].readAt > alerts[i].pushSentAt

(* C4: lastDigestAt of a saved search never moves to an earlier time, also  *)
(* when the steps of two runs interleave.                                   *)
C4_LastDigestAtMonotone ==
    [][\A s \in SearchIds : lastDigestAt'[s] >= lastDigestAt[s]]_vars

(* C7: a step that produces a preview leaves every alert, every             *)
(* lastDigestAt and the log table as they were.                             *)
C7_PreviewMutatesNothing ==
    [][(lastPreview' # lastPreview /\ lastPreview' # {}) =>
           (alerts' = alerts /\ lastDigestAt' = lastDigestAt /\ logs' = logs
            /\ searchCfg' = searchCfg)]_vars

(* a preview taken over a store that holds pending alerts, sent alerts, a   *)
(* digest stamp and log rows                                                *)
C7_Witness ==
    /\ \E p \in lastPreview : p.counts.pendingAlerts > 0
    /\ logs # EmptyBag
    /\ \E s \in SearchIds : lastDigestAt[s] # NULL

(* the per-channel pending counts of a preview, added up *)
PreviewPending(p) ==
    p.counts.pendingEmailAlerts + p.counts.pendingInAppAlerts
        + p.counts.pendingPushAlerts

(* the searches of the run's snapshot that had pending alerts were all      *)
(* instant and sent push per alert                                          *)
AllInstantPerAlert(r) ==
    \A k \in 1..Len(run[r].searches) :
        ChannelPendingCounts(run[r].searches[k]).pendingUniqueCount > 0 =>
            /\ NormalizeCadence(searchCfg[run[r].searches[k].id].digestCadence)
                   = "instant"
            /\ ~searchCfg[run[r].searches[k].id].pushDeferred

(* C8 as stated: a preview followed at once by a run of the same scope at   *)
(* the same time reports pending counts equal to the run's                  *)
(* attemptedDeliveries.                                                     *)
C8_PreviewEqualsAttempted ==
    run[1].pc = "done" =>
        \A p \in run[1].preview :
            PreviewPending(p) = run[1].summary.attemptedDeliveries

(* C8 amended: attemptedDeliveries never exceeds the preview's per-channel  *)
(* pending counts added up, and equals that sum when every search with      *)
(* pending alerts is instant with push not deferred.                        *)
C8_PreviewBoundsAttempted ==
    run[1].pc = "done" =>
        \A p \in run[1].preview :
            /\ run[1].summary.attemptedDeliveries <= PreviewPending(p)
            /\ AllInstantPerAlert(1) =>
                   PreviewPending(p) = run[1].summary.attemptedDeliveries

(* a finished run that followed a preview, over instant searches only, with *)
(* several in-app alerts attempted                                          *)
C8_Witness ==
    /\ run[1].pc = "done"
    /\ run[1].preview # {}
    /\ AllInstantPerAlert(1)
    /\ run[1].summary.inApp >= 2
    /\ run[1].summary.attemptedDeliveries >= 2

(* C9: per channel, the pending count at the end of a run is at most the    *)
(* count at its start, smaller when a delivery on the channel was accepted, *)
(* and equal when no delivery on the channel was accepted.                  *)
C9_PendingNeverGrows ==
    run[1].pc = "done" =>
        \A ch \in {"email", "in_app", "push"} :
            LET before == run[1].pendingBefore[ChannelKey(ch)]
                after == PendingNow[ChannelKey(ch)]
                wonHere == {p \in run[1].won : p[2] = ch}
            IN /\ after <= before
               /\ wonHere # {} => after < before
               /\ wonHere = {} => after = before

(* a finished run with an accepted and a rejected delivery on one channel   *)
(* and only failures on another                                             *)
C9_Witness ==
    /\ run[1].pc = "done"
    /\ \E p \in run[1].won, q \in run[1].rejected : p[2] = q[2]
    /\ \E ch \in {"email", "in_app", "push"} :
           /\ {p \in run[1].won : p[2] = ch} # {}
           /\ PendingNow[ChannelKey(ch)] > 0

(* C10: the summary of a finished run has logsCreated equal to              *)
(* attemptedDeliveries.                                                     *)
C10_LogsEqualAttempts ==
    run[1].pc = "done" =>
        run[1].summary.logsCreated = run[1].summary.attemptedDeliveries

(* the pending alerts of search s as a run or preview fetches them now *)
FetchedCounts(s) ==
    LET fetched == FetchPendingSearches(searchCfg[s].userId)
        k == CHOOSE i \in 1..Len(fetched) : fetched[i].id = s
    IN ChannelPendingCounts(fetched[k])

(* the digest-due rule, stated on the stored values *)
DueByRule(s, now) ==
    /\ now % 24 >= searchCfg[s].digestHour
    /\ \/ lastDigestAt[s] = NULL
       \/ now - lastDigestAt[s] >=
              (IF searchCfg[s].digestCadence = "weekly" THEN 168 ELSE 24)

(* C11: for a daily or weekly search with pending alerts, the preview counts *)
(* the search as a due digest iff the current hour is at least digestHour    *)
(* and lastDigestAt is null or at least 24 hours (daily) or 168 hours        *)
(* (weekly) in the past; else it counts it as waiting.                       *)
C11_DigestDueRule ==
    \A p \in lastPreview :
        (/\ p.userId = 1
         /\ searchCfg[1].digestCadence \in {"daily", "weekly"}
         /\ FetchedCounts(1).pendingUniqueCount > 0)
        => /\ (p.counts.dueDigestSearches = 1) <=> DueByRule(1, p.now)
           /\ (p.counts.waitingDigestSearches = 1) <=> ~DueByRule(1, p.now)

(* a daily search with digestHour 9, previewed at hour 9 twenty hours after *)
(* its last digest, is waiting                                              *)
C11_Witness ==
    \E p \in lastPreview :
        /\ p.userId = 1 /\ p.now = 33 /\ lastDigestAt[1] = 13
        /\ searchCfg[1].digestCadence = "daily" /\ searchCfg[1].digestHour = 9
        /\ FetchedCounts(1).pendingUniqueCount > 0
        /\ p.counts.dueDigestSearches = 0 /\ p.counts.waitingDigestSearches = 1

(* the delivery state of search s: its lastDigestAt, its alerts, its log    *)
(* rows, and the <<alert, channel>> pairs run r has sent to a provider or   *)
(* delivered in-app                                                         *)
SearchFootprint(s, r, digests, rows, table, rec) ==
    [lastDigestAt |-> digests[s],
     alerts |-> {<<i, rows[i]>> : i \in {j \in 1..Len(rows) : rows[j].savedSearchId = s}},
     logs |-> {<<row, CopiesIn(row, table)>> :
                  row \in {x \in BagToSet(table) : x.savedSearchId = s}},
     attempted |-> {p \in rec[r].attempted : rows[p[1]].savedSearchId = s}]

(* C12: while a run works through its searches, a daily or weekly search     *)
(* whose digest is not due at the run's time gets no provider call and no    *)
(* delivery log row, and its lastDigestAt and its alerts stay as they are.   *)
C12_NotDueUntouched ==
    [][\A s \in SearchIds :
          (/\ run[1].pc \notin {"idle", "done"}
           /\ searchCfg[s].digestCadence \in {"daily", "weekly"}
           /\ ~DueByRule(s, run[1].now))
          => SearchFootprint(s, 1, lastDigestAt', alerts', logs', run') =
             SearchFootprint(s, 1, lastDigestAt, alerts, logs, run)]_vars

(* a run has scanned a digest search that has pending alerts and is not due *)
C12_Witness ==
    /\ run[1].pc = "done"
    /\ run[1].summary.waitingDigestSearches > 0
    /\ \E s \in SearchIds :
          /\ searchCfg[s].digestCadence \in {"daily", "weekly"}
          /\ ~DueByRule(s, run[1].now)
          /\ FetchedCounts(s).pendingUniqueCount > 0
          /\ run[1].userId \in {ALL, searchCfg[s].userId}

(* 1 when the sequence has an element, else 0 *)
Some(alertSeq) == IF Len(alertSeq) > 0 THEN 1 ELSE 0

(* C13: when a run has worked through a due daily or weekly search (the      *)
(* first it fetched), it has counted one attempt for each channel that had   *)
(* pending alerts, that attempt covered all pending alerts of the channel,   *)
(* and email and push each got a single message (one log row) however many   *)
(* alerts were pending.                                                      *)
C13_DigestOneAttemptPerChannel ==
    (run[1].pc = "mark" /\ run[1].idx = 1)
    => LET counts == CurCounts(1)
       IN /\ run[1].summary.attemptedDeliveries =
                Some(counts.emailAlerts) + Some(counts.inAppAlerts) + Some(counts.pushAlerts)
          /\ run[1].attempted =
                Pairs(counts.emailAlerts, "email") \cup Pairs(counts.inAppAlerts, "in_app")
                    \cup Pairs(counts.pushAlerts, "push")
          /\ run[1].summary.logsCreated =
                Some(counts.emailAlerts) + Len(counts.inAppAlerts) + Some(counts.pushAlerts)

(* a due digest with two pending alerts on each of the three channels *)
C13_Witness ==
    /\ run[1].pc = "mark" /\ run[1].idx = 1
    /\ Len(CurCounts(1).emailAlerts) = 2
    /\ Len(CurCounts(1).inAppAlerts) = 2
    /\ Len(CurCounts(1).pushAlerts) = 2
    /\ run[1].summary.attemptedDeliveries = 3

(* C14: a step changes a search's lastDigestAt only if the search is daily   *)
(* or weekly, its digest was due at the run's time, the run fetched it with  *)
(* at least one pending alert, and the new value is the run's time; the      *)
(* lastDigestAt of an instant search never changes.                          *)
C14_LastDigestAtOnlyDueDigest ==
    [][\A s \in SearchIds :
          lastDigestAt'[s] # lastDigestAt[s]
          => /\ searchCfg[s].digestCadence \in {"daily", "weekly"}
             /\ DueByRule(s, run[1].now)
             /\ \E k \in 1..Len(run[1].searches) :
                    /\ run[1].searches[k].id = s
                    /\ ChannelPendingCounts(run[1].searches[k]).pendingUniqueCount > 0
             /\ lastDigestAt'[s] = run[1].now]_vars

(* a run has stored its time as lastDigestAt of a daily search, and an      *)
(* instant search processed by a run still has none                         *)
C14_Witness ==
    /\ run[1].pc = "done"
    /\ run[1].userId = ALL
    /\ run[1].attempted # {}
    /\ \/ searchCfg[1].digestCadence = "daily" /\ lastDigestAt[1] = run[1].now
       \/ /\ searchCfg[1].digestCadence = "instant" /\ lastDigestAt[1] = NULL
          /\ lastDigestAt[2] = run[1].now

(* the <<alert, channel>> pairs a complete run owes an attempt: all pending  *)
(* alerts of every fetched search that is instant or was due when fetched    *)
OwedPairs(r) ==
    UNION {LET search == run[r].searches[k]
               cfg == searchCfg[search.id]
               counts == ChannelPendingCounts(search)
               due == /\ run[r].now % 24 >= cfg.digestHour
                      /\ \/ search.lastDigestAt = NULL
                         \/ run[r].now - search.lastDigestAt >=
                                (IF cfg.digestCadence = "weekly" THEN 168 ELSE 24)
           IN IF cfg.digestCadence = "instant" \/ due
              THEN Pairs(counts.emailAlerts, "email")
                       \cup Pairs(counts.inAppAlerts, "in_app")
                       \cup Pairs(counts.pushAlerts, "push")
              ELSE {} : k \in 1..Len(run[r].searches)}

(* C15: a run in which a provider rejected a delivery does not fail; when it *)
(* is done it has scanned every fetched search, attempted every pending      *)
(* alert on every channel of the searches it had to process, and counted     *)
(* the rejection in failedDeliveries.                                        *)
C15_RejectionDoesNotAbort ==
    /\ run[1].pc # "failed"
    /\ run[1].pc = "done"
       => /\ run[1].summary.searchesScanned = Len(run[1].searches)
          /\ run[1].attempted = OwedPairs(1)
          /\ (run[1].summary.failedDeliveries > 0) <=> (run[1].rejected # {})

(* the first provider call of a run was rejected and the run went on to     *)
(* attempt other alerts and channels                                        *)
C15_Witness ==
    /\ run[1].pc = "done"
    /\ run[1].rejected # {}
    /\ run[1].summary.failedDeliveries = 1
    /\ run[1].won # {}
    /\ \E p \in run[1].rejected, q \in run[1].won : p[2] = "email" /\ q[2] = "push"

(* C16: no attempt that met missing provider configuration is recorded as a  *)
(* failed delivery: every attempt a finished run counts as rejected was      *)
(* rejected by a provider that has its configuration.                        *)
C16_MissingConfigNotFailedDelivery ==
    run[1].pc = "done"
    => \A p \in run[1].rejected :
          /\ p[2] = "email" => env.resendApiKey
          /\ p[2] = "push" => env.pushWebhookUrl

(* C17: with every audit event emission throwing, the run does not fail;     *)
(* every delivery it counts as delivered has its log row and keeps its sent  *)
(* timestamp, alertsDelivered counts all of them, and when the run is done   *)
(* it has attempted every delivery it owed.                                  *)
C17_AuditFailureSwallowed ==
    env.webhookEventStore = "down"
    => /\ run[1].pc # "failed"
       /\ \A p \in run[1].won :
             /\ SentAt(alerts[p[1]], p[2]) = run[1].now
             /\ \E row \in BagToSet(logs) :
                    /\ row.savedSearchId = alerts[p[1]].savedSearchId
                    /\ row.channel = p[2] /\ row.accepted
       /\ run[1].summary.alertsDelivered = Cardinality(run[1].won)
       /\ run[1].pc = "done" => run[1].attempted = OwedPairs(1)

(* emissions throw, and a run has finished with accepted email and push     *)
(* deliveries                                                               *)
C17_Witness ==
    /\ env.webhookEventStore = "down"
    /\ run[1].pc = "done"
    /\ \E p \in run[1].won, q \in run[1].won : p[2] = "email" /\ q[2] = "push"

(* C27: the alert table never holds two rows for one (user, saved search,   *)
(* job), and no step of a sync changes a row that exists, its sent and read  *)
(* timestamps included, also when the upserts of syncs for one user          *)
(* interleave with each other and with mark-read requests, with delivery     *)
(* runs between the syncs.                                                   *)
C27_SyncUpsertsOnce ==
    /\ [](\A i, j \in 1..Len(alerts) :
            (/\ alerts[i].userId = alerts[j].userId
             /\ alerts[i].savedSearchId = alerts[j].savedSearchId
             /\ alerts[i].jobId = alerts[j].jobId) => i = j)
    /\ [][syncs' # syncs =>
            /\ Len(alerts') >= Len(alerts)
            /\ \A i \in 1..Len(alerts) : alerts'[i] = alerts[i]]_vars

(* two syncs for one user have run into each other: one create met the row  *)
(* of the other, and an alert delivered and read in between is as it was    *)
C27_Witness ==
    /\ syncs.calls = 2
    /\ \E k \in SyncIds : syncs.of[k].conflicts > 0
    /\ \E k \in SyncIds : syncs.of[k].pc = "running" /\ syncs.of[k].looking # {}
    /\ \E i \in 1..Len(alerts) :
          alerts[i].emailSentAt # NULL /\ alerts[i].readAt # NULL

(* C29: no provider accepts a message for the same alert on the same        *)
(* channel more than once, across runs that follow each other and runs whose *)
(* steps interleave.                                                         *)
C29_AcceptedAtMostOnce ==
    \A pair \in BagToSet(accepted) : CopiesIn(pair, accepted) <= 1

----------------
(* Properties of application creation *)

(* C5: the applicant has at most one Application row per job, and every     *)
(* submission that did not itself create the row of its job answers 200     *)
(* with that row as it is stored.                                           *)
C5_IdempotentCreation ==
    /\ \A j \in AppJobIds :
           Cardinality(ApplicationsFor(applications, Applicant, j)) <= 1
    /\ \A q \in PostIds : \A resp \in post[q].response :
           LET rows == ApplicationsFor(applications, Applicant, post[q].jobId)
           IN (resp.status # 201 /\ rows # {}) =>
                  /\ resp.status = 200
                  /\ resp.body \subseteq {applications[i] : i \in rows}

(* requests that evaluateApplication told to block *)
BlockedPosts ==
    {q \in PostIds : \E scoring \in post[q].scoring : scoring.blockForAbuse}

(* C18: a submission scored blockForAbuse (which is riskScore >= 72 before   *)
(* clamping) ends with status 429 and no record; every Application row for   *)
(* a job applied to belongs to a request answered 201; and the fraud events  *)
(* with decision "block" are one for each blocked request that has finished. *)
C18_BlockedCreatesNoApplication ==
    /\ \A q \in PostIds : \A scoring \in post[q].scoring :
          scoring.blockForAbuse <=> scoring.riskScore >= 72
    /\ \A q \in BlockedPosts :
          /\ post[q].pc \in {"fraud", "done"}
          /\ post[q].pc = "done" => post[q].response = {[status |-> 429, body |-> {}]}
    /\ Cardinality({i \in 1..Len(applications) : applications[i].jobId \in ScoreJobIds})
          = Cardinality({q \in PostIds : \E rsp \in post[q].response : rsp.status = 201})
    /\ Cardinality({i \in 1..Len(fraudEvents) : fraudEvents[i].decision = "block"})
          = Cardinality({q \in BlockedPosts : post[q].pc = "done"})

(* a blocked submission has been answered *)
C18_Witness ==
    \E q \in BlockedPosts :
        /\ post[q].pc = "done"
        /\ fraudEvents[Len(fraudEvents)].decision = "block"
        /\ \A i \in 1..Len(applications) : applications[i].jobId # post[q].jobId

(* C19: the result of evaluateApplication has needsManualReview true iff its *)
(* riskScore is at least 45 or its requiredPassed is false.                  *)
C19_ManualReviewRule ==
    \A q \in PostIds : \A scoring \in post[q].scoring :
        scoring.needsManualReview <=> (scoring.riskScore >= 45 \/ ~scoring.requiredPassed)

(* a result whose risk rules add up to more than 100, with required         *)
(* screeners passed                                                         *)
C19_Witness ==
    \E q \in PostIds : \E scoring \in post[q].scoring :
        /\ scoring.requiredPassed /\ scoring.needsManualReview
        /\ Len(scoring.riskFlags) = 6

(* C20: the riskScore and autoRankScore of every result of                   *)
(* evaluateApplication are integers from 0 to 100.                           *)
C20_ScoresInRange ==
    \A q \in PostIds : \A scoring \in post[q].scoring :
        /\ scoring.riskScore \in 0..100
        /\ scoring.autoRankScore \in 0..100

(* every risk rule raised, six required skills missing: both scores sit at  *)
(* a bound                                                                  *)
C20_Witness ==
    \E q \in PostIds : \E scoring \in post[q].scoring :
        /\ Len(scoring.riskFlags) = 7
        /\ post[q].jobId = 4
        /\ scoring.riskScore = 100 /\ scoring.autoRankScore = 0

(* the flags of a result, as a set *)
FlagSet(scoring) == {scoring.riskFlags[i] : i \in 1..Len(scoring.riskFlags)}

(* the points the claim's rules add for the inputs the handler read; the    *)
(* very_new_account rule adds its 18 whenever its flag is raised            *)
RulePoints(recent, ageMinutes, prior, isFlagged, unanswered, flags) ==
    (IF recent >= 6 THEN 22 ELSE 0) + (IF recent >= 12 THEN 20 ELSE 0)
      + (IF ageMinutes < 60 THEN 18 ELSE 0)
      + (IF "very_new_account" \in flags THEN 18 ELSE 0)
      + (IF prior * 6 > 24 THEN 24 ELSE prior * 6)
      + (IF isFlagged THEN 26 ELSE 0)
      + (IF unanswered THEN 10 ELSE 0)

C22_VeryNewAccountUnderTenMinutes ==
    \A q \in PostIds : \A scoring \in post[q].scoring :
        "very_new_account" \in FlagSet(scoring) <=> candidate.accountAgeMinutes < 10

----------------------------------------------------------------------------
(* Properties of pipeline automation *)

(* C6: a step of a pipeline run writes the recommended status (suggested    *)
(* owner) and counts it exactly when the record still holds the status      *)
(* (owner) the snapshot saw; otherwise the record and the count stay as     *)
(* they are. Nothing else changes an application's status.                  *)
C6_WritesOnlyOnSnapshotMatch ==
    [][/\ \A p \in PipeRuns :
              (pipe[p].pc = "apply" /\ pipe'[p] # pipe[p]) =>
                  LET rec == Head(pipe[p].recommendationTargets)
                      id == rec.applicationId
                  IN IF applications[id].status = rec.currentStatus
                     THEN /\ applications'[id].status = rec.recommendedStatus
                          /\ pipe'[p].appliedStatusUpdates
                                 = pipe[p].appliedStatusUpdates + 1
                     ELSE /\ applications' = applications
                          /\ pipe'[p].appliedStatusUpdates
                                 = pipe[p].appliedStatusUpdates
       /\ \A p \in PipeRuns :
              (pipe[p].pc = "move" /\ pipe'[p] # pipe[p]) =>
                  LET sug == Head(pipe[p].rebalanceTargets)
                      id == sug.interviewId
                  IN IF interviews[id].owner = sug.currentOwner
                     THEN /\ interviews'[id].owner = sug.suggestedOwner
                          /\ pipe'[p].movedInterviews = pipe[p].movedInterviews + 1
                     ELSE /\ interviews' = interviews
                          /\ pipe'[p].movedInterviews = pipe[p].movedInterviews
       /\ (\A p \in PipeRuns : pipe[p].pc # "apply" \/ pipe'[p] = pipe[p]) =>
              applications' = applications]_vars

(* a finished run that found an application in a status neither seen by     *)
(* its snapshot nor recommended by it, found an interview already moved,    *)
(* and still applied another recommendation                                 *)
C6_Witness ==
    \E p \in PipeRuns :
        /\ pipe[p].pc = "done"
        /\ \E rec \in pipe[p].staleStatus :
               applications[rec.applicationId].status
                   \notin {rec.currentStatus, rec.recommendedStatus}
        /\ pipe[p].staleOwner # {}
        /\ pipe[p].appliedStatusUpdates >= 1
        /\ pipe[p].appliedStatusUpdates < pipe[p].recommendationsConsidered

(* the recommendations of the admin snapshot that name application i *)
RecommendationsOf(i) ==
    LET recs == Recommendations(applications, "admin", ADMIN, clock)
    IN {k \in 1..Len(recs) : recs[k].applicationId = i}

(* what the stage table gives a status, a merit and an age in hours *)
StageTable(status, merit, hours) ==
    IF status = "Applied"
    THEN IF merit >= 90 THEN {<<"Interview", "high", 92>>}
         ELSE IF merit >= 82 /\ hours >= 96 THEN {<<"Interview", "medium", 81>>}
         ELSE IF merit < 70 /\ hours >= 288 THEN {<<"Rejected", "medium", 76>>}
         ELSE {}
    ELSE IF status = "Interview"
    THEN IF merit >= 88 /\ hours >= 240 THEN {<<"Offer", "high", 87>>}
         ELSE IF merit < 75 /\ hours >= 504 THEN {<<"Rejected", "low", 68>>}
         ELSE {}
    ELSE {}

(* C23: in every snapshot an Applied application whose job has meritFit of   *)
(* 90 or more has exactly one recommendation, Interview at high priority     *)
(* with confidence 0.92, whatever its age; every other application has the  *)
(* recommendation of the first rule of the stage table that matches it, and  *)
(* none when no rule matches.                                                *)
C23_FirstMatchWins ==
    LET recs == Recommendations(applications, "admin", ADMIN, clock)
    IN \A i \in 1..Len(applications) :
         LET a == applications[i]
             merit == JobMeritFit(a.jobId)
             mine == RecommendationsOf(i)
         IN /\ Cardinality(mine) <= 1
            /\ (a.status = "Applied" /\ merit >= 90) =>
                  \E k \in mine :
                      /\ recs[k].recommendedStatus = "Interview"
                      /\ recs[k].priority = "high"
                      /\ recs[k].confidence = 92
            /\ a.status \in ValidStatuses =>
                  {<<recs[k].recommendedStatus, recs[k].priority, recs[k].confidence>> :
                       k \in mine}
                    = StageTable(a.status, merit, clock - a.appliedAt)

(* a run has moved to Interview an application of top merit that was sent   *)
(* twelve days ago, long enough for the later Applied rules                 *)
C23_Witness ==
    /\ applications[1].status = "Interview"
    /\ JobMeritFit(applications[1].jobId) >= 90
    /\ clock - applications[1].appliedAt = 12 * 24
    /\ pipeUsed.statusWrites[1] = 1

(* the rank the claim gives a priority *)
RankOf(priority) ==
    CASE priority = "high" -> 3 [] priority = "medium" -> 2 [] OTHER -> 1

(* C24: the step that starts a run reads a snapshot whose recommendations    *)
(* are in descending order of priority rank (high, medium, low) and, within  *)
(* a rank, of confidence, and takes as its targets exactly the first         *)
(* applyLimit of them: 3 when applyLimit is not a finite number, 0 when it   *)
(* is negative, its integer part otherwise.                                  *)
C24_TopOfSortedSnapshot ==
    [][\A p \in PipeRuns :
         (pipe[p].pc = "idle" /\ pipe'[p].pc # "idle") =>
           \A in \in pipe'[p].input :
             LET recs == Recommendations(applications, in.scope, in.userId, clock)
                 limit == IF ~in.applyLimit.finite THEN 3
                          ELSE IF in.applyLimit.tenths < 0 THEN 0
                          ELSE in.applyLimit.tenths \div 10
                 taken == IF limit < Len(recs) THEN limit ELSE Len(recs)
             IN /\ \A k, l \in 1..Len(recs) :
                      k < l =>
                        \/ RankOf(recs[k].priority) > RankOf(recs[l].priority)
                        \/ /\ RankOf(recs[k].priority) = RankOf(recs[l].priority)
                           /\ recs[k].confidence >= recs[l].confidence
                /\ Len(pipe'[p].recommendationTargets) = taken
                /\ \A k \in 1..taken : pipe'[p].recommendationTargets[k] = recs[k]]_vars

(* a run without a finite applyLimit holds three targets of a snapshot of   *)
(* four recommendations; the stale application of low merit is left out     *)
C24_Witness ==
    /\ pipe[1].pc = "apply"
    /\ pipe[1].input # {} /\ \A in \in pipe[1].input : ~in.applyLimit.finite
    /\ Len(pipe[1].recommendationTargets) = 3
    /\ pipe[1].appliedStatusUpdates = 0
    /\ Len(Recommendations(applications, "admin", ADMIN, clock)) = 4
    /\ pipe[1].recommendationTargets[1].priority = "high"
    /\ pipe[1].recommendationTargets[3].priority = "medium"
    /\ \A k \in 1..3 : pipe[1].recommendationTargets[k].applicationId # 4

(* the suggestions of the snapshot taken now *)
SuggestionsNow == RebalanceSuggestions(UpcomingInterviews(interviews, clock))

(* an owner's virtual count once the first k suggestions are made *)
VirtualCount(owner, k) ==
    Scheduled(UpcomingInterviews(interviews, clock), owner)
      - Cardinality({j \in 1..k : SuggestionsNow[j].currentOwner = owner})
      + Cardinality({j \in 1..k : SuggestionsNow[j].suggestedOwner = owner})

(* C25: the rebalancing of every snapshot ends, with no more suggestions     *)
(* than upcoming interviews and no interview suggested twice; each           *)
(* suggestion is made when the source owner's virtual count exceeds the      *)
(* target's by more than 1, and after it the target's virtual count is not   *)
(* greater than the source's.                                                *)
C25_RebalanceEndsWithoutOvershoot ==
    /\ Len(SuggestionsNow) <= Len(UpcomingInterviews(interviews, clock))
    /\ \A k, l \in 1..Len(SuggestionsNow) :
          SuggestionsNow[k].interviewId = SuggestionsNow[l].interviewId => k = l
    /\ \A k \in 1..Len(SuggestionsNow) :
          LET source == SuggestionsNow[k].currentOwner
              target == SuggestionsNow[k].suggestedOwner
          IN /\ interviews[SuggestionsNow[k].interviewId].owner = source
             /\ VirtualCount(source, k - 1) - VirtualCount(target, k - 1) > 1
             /\ VirtualCount(target, k) <= VirtualCount(source, k)

(* a snapshot of owners with 4 and 1 interviews: one move, and a second     *)
(* would overshoot                                                          *)
C25_Witness ==
    /\ Len(interviews) = 5
    /\ Scheduled(interviews, "ana") = 4 /\ Scheduled(interviews, "ben") = 1
    /\ Len(SuggestionsNow) = 1
    /\ pipe[1].pc = "move" /\ Len(pipe[1].rebalanceTargets) = 1

(* exactly two owners, with 5 and 1 upcoming interviews *)
FiveAndOne ==
    /\ Len(UpcomingInterviews(interviews, clock)) = 6
    /\ \E busy, free \in Owners :
          /\ Scheduled(UpcomingInterviews(interviews, clock), busy) = 5
          /\ Scheduled(UpcomingInterviews(interviews, clock), free) = 1

(* C26 as stated: with exactly two owners holding 5 and 1 upcoming           *)
(* interviews the snapshot has exactly one rebalance suggestion, and after   *)
(* it the two virtual counts differ by at most 1.                            *)
C26_FiveAndOneSingleMove ==
    FiveAndOne =>
        /\ Len(SuggestionsNow) = 1
        /\ \A busy, free \in {interviews[i].owner : i \in 1..Len(interviews)} :
              VirtualCount(busy, 1) - VirtualCount(free, 1) <= 1

(* C26 amended: with exactly two owners holding 5 and 1 upcoming interviews  *)
(* the snapshot has exactly two rebalance suggestions, both from the owner   *)
(* of 5 to the owner of 1; the first leaves virtual counts of 4 and 2, the   *)
(* second brings them to 3 and 3, a gap of at most 1 with no overshoot.      *)
C26_FiveAndOneTwoMoves ==
    FiveAndOne =>
        \E busy, free \in Owners :
            /\ Scheduled(UpcomingInterviews(interviews, clock), busy) = 5
            /\ Len(SuggestionsNow) = 2
            /\ \A k \in 1..2 : /\ SuggestionsNow[k].currentOwner = busy
                                /\ SuggestionsNow[k].suggestedOwner = free
            /\ VirtualCount(busy, 1) = 4 /\ VirtualCount(free, 1) = 2
            /\ VirtualCount(busy, 2) = 3 /\ VirtualCount(free, 2) = 3

(* a run on owners with 5 and 1 interviews holds both suggestions *)
C26_Witness ==
    /\ FiveAndOne
    /\ pipe[1].pc = "move"
    /\ Len(pipe[1].rebalanceTargets) = 2
    /\ pipe[1].movedInterviews = 0

(* the status changes automation may make *)
AutomationMoves ==
    {<<"Applied", "Interview">>, <<"Applied", "Rejected">>,
     <<"Interview", "Offer">>, <<"Interview", "Rejected">>}

(* C30: every step of runPipelineAutomation that changes an application      *)
(* changes its status only, along Applied->Interview, Applied->Rejected,     *)
(* Interview->Offer or Interview->Rejected, so never one in Offer or         *)
(* Rejected; no application is written more than twice; and once the         *)
(* snapshot has no recommendation no step changes an application.            *)
C30_AutomationMovesForward ==
    /\ [](\A i \in 1..Len(applications) : pipeUsed.statusWrites[i] <= 2)
    /\ [][/\ Len(applications') = Len(applications)
          /\ \A i \in 1..Len(applications) :
                applications'[i] # applications[i] =>
                  /\ <<applications[i].status, applications'[i].status>>
                        \in AutomationMoves
                  /\ applications'[i]
                        = [applications[i] EXCEPT !.status = applications'[i].status]
                  /\ pipeUsed'.statusWrites[i] = pipeUsed.statusWrites[i] + 1
          /\ Recommendations(applications, "admin", ADMIN, clock) = <<>>
                => applications' = applications]_vars

(* runs have taken an application from Applied to Offer, left the offer     *)
(* that was there alone, and the snapshot has nothing more to recommend     *)
C30_Witness ==
    /\ pipe[1].pc = "idle"
    /\ pipeUsed.statusWrites[1] = 2 /\ applications[1].status = "Offer"
    /\ pipeUsed.statusWrites[3] = 0 /\ applications[3].status = "Offer"
    /\ Recommendations(applications, "admin", ADMIN, clock) = <<>>

----------------------------------------------------------------------------
(* Properties of rate limiting *)

(* the results that allowed a request of an identifier in the window that   *)
(* ends at resetAt                                                          *)
AllowedInWindow(identifier, resetAt) ==
    {k \in 1..Len(rateLimits.results) :
        /\ rateLimits.results[k].identifier = identifier
        /\ rateLimits.results[k].allowed
        /\ rateLimits.results[k].resetAt = resetAt}

(* C28: for each identifier the requests allowed in one window, which runs   *)
(* from its first request for windowMs until its resetAt, are at most        *)
(* `limit`; a refused request returns remaining 0 and leaves the stored      *)
(* count as it was; and a request at or after the resetAt of the stored      *)
(* bucket is allowed and starts a window with count 1.                       *)
C28_AtMostLimitPerWindow ==
    /\ [](\A k \in 1..Len(rateLimits.results) :
            LET r == rateLimits.results[k]
            IN /\ Cardinality(AllowedInWindow(r.identifier, r.resetAt))
                     <= LimitPerWindow
               /\ r.at < r.resetAt /\ r.resetAt <= r.at + WindowSeconds
               /\ ~r.allowed => r.remaining = 0)
    /\ [][Len(rateLimits'.results) > Len(rateLimits.results) =>
            LET r == rateLimits'.results[Len(rateLimits'.results)]
                before == rateLimits.store[r.identifier]
                after == rateLimits'.store[r.identifier]
            IN /\ ~r.allowed =>
                     /\ after = before
                     /\ \A b \in before : b.count = LimitPerWindow
               /\ (\A b \in before : b.resetAt <= rateLimits.now) =>
                     /\ r.allowed
                     /\ after = {[count |-> 1,
                                  resetAt |-> rateLimits.now + WindowSeconds]}
               /\ \A b \in after : b.count <= LimitPerWindow]_vars

(* an identifier was allowed twice and refused in one window, and allowed   *)
(* again, with a new resetAt, once that window was over                     *)
C28_Witness ==
    /\ Len(rateLimits.results) = 4
    /\ \A k \in 1..4 : rateLimits.results[k].identifier = "unknown"
    /\ rateLimits.results[1].allowed /\ rateLimits.results[2].allowed
    /\ ~rateLimits.results[3].allowed
    /\ rateLimits.results[3].resetAt = rateLimits.results[1].resetAt
    /\ rateLimits.results[4].allowed
    /\ rateLimits.results[4].at >= rateLimits.results[1].resetAt
    /\ rateLimits.store["unknown"] = {[count |-> 1,
                                       resetAt |-> rateLimits.results[4].resetAt]}

====
